---------------------------- MODULE Spec2Model ----------------------------
(***************************************************************************)
(* Model of backend/main.py: the rule-based AI-text detector.              *)
(*                                                                         *)
(*   analyze_text_features : text -> feature mapping                       *)
(*   calculate_ai_score    : feature mapping -> (ai, human, trace)         *)
(*   get_explanation       : label, confidence, features -> explanation    *)
(*   detect_text           : the POST /detect handler                      *)
(*                                                                         *)
(* Python floats are IEEE-754 binary64.  Float arithmetic is modelled      *)
(* bit-exactly: a float is a sign, a 53-bit significand and an exponent,   *)
(* and every float operation computes the exact result and rounds it to    *)
(* 53 significant bits, ties to even.                                      *)
(***************************************************************************)
EXTENDS Integers, Naturals, Sequences, FiniteSets, TLC

(***************************************************************************)
(* Natural numbers as little-endian sequences of base-2^14 limbs, used     *)
(* where 32-bit integers are too narrow (products, quotients, decimals).   *)
(***************************************************************************)
LimbBase == 2^14

Limb(a, i) == IF i >= 1 /\ i <= Len(a) THEN a[i] ELSE 0

RECURSIVE Carry(_, _, _)
Carry(cols, i, c) ==
  IF i > Len(cols)
  THEN IF c = 0 THEN <<>> ELSE <<c % LimbBase>> \o Carry(cols, i, c \div LimbBase)
  ELSE LET v == cols[i] + c
       IN  <<v % LimbBase>> \o Carry(cols, i + 1, v \div LimbBase)

RECURSIVE ColSum(_, _, _, _)
ColSum(a, b, k, i) ==
  IF i > Len(a) THEN 0 ELSE Limb(a, i) * Limb(b, k + 1 - i) + ColSum(a, b, k, i + 1)

BigMul(a, b) ==
  Carry([k \in 1..(Len(a) + Len(b) - 1) |-> ColSum(a, b, k, 1)], 1, 0)

BigIsZero(a) == \A i \in 1..Len(a) : a[i] = 0

\* the number of significant bits of n < 2^31
BitLen(n) == IF n = 0 THEN 0 ELSE CHOOSE b \in 1..31 : n \div 2^(b - 1) = 1

RECURSIVE BigBitLenFrom(_, _)
BigBitLenFrom(a, i) ==
  IF i = 0 THEN 0
  ELSE IF a[i] # 0 THEN (i - 1) * 14 + BitLen(a[i])
  ELSE BigBitLenFrom(a, i - 1)

BigBitLen(a) == BigBitLenFrom(a, Len(a))

\* floor(a / 2^k)
BigShr(a, k) ==
  LET s == k \div 14
      b == k % 14
  IN  [j \in 1..Len(a) |->
         (Limb(a, s + j) \div 2^b) + (Limb(a, s + j + 1) % 2^b) * 2^(14 - b)]

\* a mod 2^k is not zero
BigLowNonzero(a, k) ==
  \E j \in 1..Len(a) :
     \/ j * 14 <= k /\ a[j] # 0
     \/ (j - 1) * 14 < k /\ k < j * 14
          /\ a[j] % 2^(k - (j - 1) * 14) # 0

\* a step of a long division by d, 2^14 <= d < 2^31: the quotient and the
\* remainder of r * 128 + t for r < d and t < 128, with no intermediate
\* value leaving 32 bits.  With c = ceil(d / 128) and r = k * c + s,
\* r * 128 + t = k * d + (k * (128 * c - d) + 128 * s + t), where
\* 128 * c - d = 127 - (d - 1) % 128 and the last term is below 2 * d.
DivHalfBy(k, low, u, d) ==
  IF low >= u THEN [q |-> k + 1, r |-> low - u]
  ELSE [q |-> k, r |-> (d - u) + low]

DivHalf(r, t, d) ==
  LET c == (d - 1) \div 128 + 1
  IN  DivHalfBy(r \div c, (r \div c) * (127 - ((d - 1) % 128)) + t, d - 128 * (r % c), d)

\* one digit of a long division by d < 2^31: the quotient and the
\* remainder of r * 2^14 + limb for r < d
DivLow(q1, h2) == [q |-> q1 * 128 + h2.q, r |-> h2.r]

DivHigh(h1, t, d) == DivLow(h1.q, DivHalf(h1.r, t, d))

DivLimb(r, limb, d) ==
  IF d < 2^17
  THEN [q |-> (r * LimbBase + limb) \div d, r |-> (r * LimbBase + limb) % d]
  ELSE DivHigh(DivHalf(r, limb \div 128, d), limb % 128, d)

\* long division of a by an int d > 0, most significant limb first: limbs
\* i down to 1 are still to divide, r is the remainder so far and q the
\* quotient limbs found
RECURSIVE BigDivFrom(_, _, _, _, _)
RECURSIVE BigDivStep(_, _, _, _, _)
BigDivFrom(a, d, i, r, q) ==
  IF i = 0 THEN [q |-> q, r |-> r]
  ELSE BigDivStep(a, d, i, q, DivLimb(r, a[i], d))

BigDivStep(a, d, i, q, step) == BigDivFrom(a, d, i - 1, step.r, <<step.q>> \o q)

BigDivInt(a, d) == BigDivFrom(a, d, Len(a), 0, <<>>)

\* round(a / 2^k) to the nearest natural, ties to even
BigRoundUp(a, k, q) ==
  IF (Limb(a, (k - 1) \div 14 + 1) \div 2^((k - 1) % 14)) % 2 = 1 /\ (BigLowNonzero(a, k - 1) \/ Limb(q, 1) % 2 = 1)
  THEN Carry(q, 1, 1) ELSE q

BigRoundShr(a, k) == IF k = 0 THEN a ELSE BigRoundUp(a, k, BigShr(a, k))

(***************************************************************************)
(* Floats.  [neg, hi, lo, e] is the binary64                               *)
(*     (-1)^neg * (hi * 2^30 + lo) * 2^e                                   *)
(* with a 53-bit significand, 2^52 <= hi * 2^30 + lo < 2^53, or zero       *)
(* (hi = lo = e = 0, the sign kept).  The exponent is not bounded: the     *)
(* values of this program are ints below 2^31, the literals of the source  *)
(* and a few sums, products and quotients of these, far from the overflow  *)
(* and underflow thresholds of the format.                                 *)
(***************************************************************************)
MantBits == 53

DigitBase == 2^30

\* two-digit naturals [hi, lo] = hi * 2^30 + lo
DLess(a, b) == a.hi < b.hi \/ (a.hi = b.hi /\ a.lo < b.lo)

DAdd(a, b) ==
  LET s == a.lo + b.lo
  IN  [hi |-> a.hi + b.hi + s \div DigitBase, lo |-> s % DigitBase]

\* a - b for a >= b
DSub(a, b) ==
  LET d == a.lo - b.lo
  IN  IF d >= 0 THEN [hi |-> a.hi - b.hi, lo |-> d]
      ELSE [hi |-> a.hi - b.hi - 1, lo |-> d + DigitBase]

\* a * 2^s, the result below 2^60
DShl(a, s) ==
  IF s >= 30 THEN [hi |-> a.lo * 2^(s - 30), lo |-> 0]
  ELSE [hi |-> a.hi * 2^s + a.lo \div 2^(30 - s), lo |-> (a.lo % 2^(30 - s)) * 2^s]

\* floor(a / 2^d)
DShr(a, d) ==
  IF d >= 60 THEN [hi |-> 0, lo |-> 0]
  ELSE IF d >= 30 THEN [hi |-> 0, lo |-> a.hi \div 2^(d - 30)]
  ELSE [hi |-> a.hi \div 2^d, lo |-> a.lo \div 2^d + (a.hi % 2^d) * 2^(30 - d)]

\* a mod 2^d is not zero
DLowNonzero(a, d) ==
  IF d >= 60 THEN a.hi # 0 \/ a.lo # 0
  ELSE IF d >= 30 THEN a.lo # 0 \/ a.hi % 2^(d - 30) # 0
  ELSE a.lo % 2^d # 0

FZero(neg) == [neg |-> neg, hi |-> 0, lo |-> 0, e |-> 0]

IsZero(x) == x.hi = 0 /\ x.lo = 0

Pack(neg, m, e) == [neg |-> neg, hi |-> m.hi, lo |-> m.lo, e |-> e]

\* a rounded significand that reached 2^53 is 2^52 with the next exponent
Renormal(neg, m, e) ==
  IF m.hi = 2^(MantBits - 30)
  THEN [neg |-> neg, hi |-> 2^(MantBits - 31), lo |-> 0, e |-> e + 1]
  ELSE Pack(neg, m, e)

\* q or q + 1: a quotient q by g = 2^k with remainder r, rounded to
\* nearest, ties to even
RoundOff(q, r, g) ==
  IF 2 * r > g \/ (2 * r = g /\ q.lo % 2 = 1)
  THEN DAdd(q, [hi |-> 0, lo |-> 1]) ELSE q

\* q with its last bit set when bits were lost below it
Jam(q, lost) == IF lost /\ q.lo % 2 = 0 THEN [q EXCEPT !.lo = q.lo + 1] ELSE q

\* the same, len being the number of bits of s
DRoundLen(neg, s, e, len) ==
  IF len = 0 THEN FZero(neg)
  ELSE IF len <= MantBits
  THEN Pack(neg, DShl(s, MantBits - len), e - (MantBits - len))
  ELSE Renormal(neg,
                RoundOff(DShr(s, len - MantBits), s.lo % 2^(len - MantBits),
                         2^(len - MantBits)),
                e + (len - MantBits))

\* the float nearest to (-1)^neg * s * 2^e for a natural s below 2^60,
\* ties to even
DRound(neg, s, e) ==
  DRoundLen(neg, s, e, IF s.hi # 0 THEN 30 + BitLen(s.hi) ELSE BitLen(s.lo))

ToLimbs(x) ==
  << x.lo % LimbBase,
     (x.lo \div LimbBase) % LimbBase,
     (x.lo \div 2^28) + (x.hi % 2^12) * 4,
     x.hi \div 2^12 >>

\* the two digits of a natural below 2^60 given by its limbs
FromLimbs(a) ==
  [hi |-> Limb(a, 3) \div 4 + Limb(a, 4) * 2^12 + Limb(a, 5) * 2^26,
   lo |-> Limb(a, 1) + Limb(a, 2) * LimbBase + (Limb(a, 3) % 4) * 2^28]

\* the same, k being the number of bits of p beyond 55
FRoundAt(neg, p, e, sticky, k) ==
  DRound(neg, Jam(FromLimbs(BigShr(p, k)), sticky \/ BigLowNonzero(p, k)), e + k)

\* the float nearest to (-1)^neg * p * 2^e for a natural p > 0 given by its
\* limbs, ties to even; sticky tells that the exact value is a little above
\* p * 2^e (p then has 55 bits or more)
FRound(neg, p, e, sticky) ==
  FRoundAt(neg, p, e, sticky,
           IF BigBitLen(p) > MantBits + 2 THEN BigBitLen(p) - (MantBits + 2) ELSE 0)

\* float(n) for an int n
FromInt(n) ==
  LET a == IF n < 0 THEN -n ELSE n
  IN  DRound(n < 0, [hi |-> a \div DigitBase, lo |-> a % DigitBase], 0)

FNeg(x) == [x EXCEPT !.neg = ~x.neg]

\* |x| < |y|
MagLess(x, y) ==
  IF IsZero(y) THEN FALSE
  ELSE IF IsZero(x) THEN TRUE
  ELSE x.e < y.e \/ (x.e = y.e /\ DLess(x, y))

\* a + b or a - b, for a >= b, times 2^e, with the sign of the larger
AddAligned(same, neg, a, b, e) ==
  IF ~same /\ a = b THEN FZero(FALSE)
  ELSE DRound(neg, IF same THEN DAdd(a, b) ELSE DSub(a, b), e)

\* x + y for |x| >= |y| > 0: both significands get three more bits, the
\* smaller is moved to the exponent of the larger with the bits it loses
\* gathered in its last bit, and the exact sum of the two is rounded
AddOrdered(x, y) ==
  AddAligned(x.neg = y.neg, x.neg, DShl(x, 3),
             Jam(DShr(DShl(y, 3), x.e - y.e), DLowNonzero(DShl(y, 3), x.e - y.e)),
             x.e - 3)

\* x + y
FAdd(x, y) ==
  IF IsZero(x) THEN (IF IsZero(y) THEN FZero(x.neg /\ y.neg) ELSE y)
  ELSE IF IsZero(y) THEN x
  ELSE AddOrdered(IF MagLess(x, y) THEN y ELSE x, IF MagLess(x, y) THEN x ELSE y)

\* x - y
FSub(x, y) == FAdd(x, FNeg(y))

\* x * y
FMul(x, y) ==
  IF IsZero(x) \/ IsZero(y) THEN FZero(x.neg # y.neg)
  ELSE FRound(x.neg # y.neg, BigMul(ToLimbs(x), ToLimbs(y)), x.e + y.e, FALSE)

\* the quotient of x * 2^42 with its remainder, rounded
FDivRound(x, qr) == FRound(x.neg, qr.q, x.e - 42, qr.r # 0)

\* x / n for an int n > 0
FDivInt(x, n) ==
  IF IsZero(x) THEN x
  ELSE FDivRound(x, BigDivInt(<<0, 0, 0>> \o ToLimbs(x), n))

\* a / b for ints a and b > 0: Python's true division
TrueDiv(a, b) == FDivInt(FromInt(a), b)

\* the float a decimal literal n/d of the source denotes
Lit(n, d) == TrueDiv(n, d)

\* x < y
FLess(x, y) ==
  IF IsZero(x) /\ IsZero(y) THEN FALSE
  ELSE IF IsZero(x) THEN ~y.neg
  ELSE IF IsZero(y) THEN x.neg
  ELSE IF x.neg # y.neg THEN x.neg
  ELSE IF x.neg THEN MagLess(y, x) ELSE MagLess(x, y)

\* x == y
FEq(x, y) == ~FLess(x, y) /\ ~FLess(y, x)

\* Python max(x, y) and min(x, y): the first argument wins a tie
FMax(x, y) == IF FLess(x, y) THEN y ELSE x

FMin(x, y) == IF FLess(y, x) THEN y ELSE x
(***************************************************************************)
(* Text.  A Python str is a sequence of code points (ints), len() its      *)
(* length.  The character classes are those of the Unicode database of     *)
(* the interpreter (Python 3.11, Unicode 14.0.0), each given as runs       *)
(* <<first, last, step>>.                                                  *)
(***************************************************************************)
Range(q) == {q[i] : i \in 1..Len(q)}

\* the code points of a sequence of runs
RunChars(runs) ==
  UNION {{runs[i][1] + runs[i][3] * k : k \in 0..((runs[i][2] - runs[i][1]) \div runs[i][3])} :
           i \in 1..Len(runs)}

\* the characters str.split() and str.strip() take for whitespace
WhitespaceChars ==
  (9..13) \cup (28..32) \cup {133, 160, 5760} \cup (8192..8202)
    \cup {8232, 8233, 8239, 8287, 12288}

\* the characters with the property Uppercase
UppercaseChars ==
  RunChars(
  << <<65, 90, 1>>, <<192, 214, 1>>, <<216, 222, 1>>, <<256, 310, 2>>,
     <<313, 327, 2>>, <<330, 376, 2>>, <<377, 381, 2>>, <<385, 386, 1>>,
     <<388, 390, 2>>, <<391, 395, 2>>, <<394, 394, 1>>, <<398, 401, 1>>,
     <<403, 404, 1>>, <<406, 408, 1>>, <<412, 413, 1>>, <<415, 416, 1>>,
     <<418, 422, 2>>, <<423, 425, 2>>, <<428, 430, 2>>, <<431, 439, 2>>,
     <<434, 434, 1>>, <<440, 440, 1>>, <<444, 444, 1>>, <<452, 452, 1>>,
     <<455, 455, 1>>, <<458, 458, 1>>, <<461, 475, 2>>, <<478, 494, 2>>,
     <<497, 497, 1>>, <<500, 562, 2>>, <<503, 503, 1>>, <<570, 571, 1>>,
     <<573, 574, 1>>, <<577, 581, 2>>, <<580, 590, 2>>, <<880, 882, 2>>,
     <<886, 886, 1>>, <<895, 895, 1>>, <<902, 910, 2>>, <<905, 905, 1>>,
     <<911, 939, 2>>, <<914, 928, 2>>, <<932, 938, 2>>, <<975, 975, 1>>,
     <<978, 980, 1>>, <<984, 1006, 2>>, <<1012, 1012, 1>>, <<1015, 1017, 2>>,
     <<1018, 1018, 1>>, <<1021, 1071, 1>>, <<1120, 1152, 2>>, <<1162, 1216, 2>>,
     <<1217, 1229, 2>>, <<1232, 1326, 2>>, <<1329, 1366, 1>>, <<4256, 4293, 1>>,
     <<4295, 4295, 1>>, <<4301, 4301, 1>>, <<5024, 5109, 1>>, <<7312, 7354, 1>>,
     <<7357, 7359, 1>>, <<7680, 7828, 2>>, <<7838, 7934, 2>>, <<7944, 7951, 1>>,
     <<7960, 7965, 1>>, <<7976, 7983, 1>>, <<7992, 7999, 1>>, <<8008, 8013, 1>>,
     <<8025, 8031, 2>>, <<8040, 8047, 1>>, <<8120, 8123, 1>>, <<8136, 8139, 1>>,
     <<8152, 8155, 1>>, <<8168, 8172, 1>>, <<8184, 8187, 1>>, <<8450, 8450, 1>>,
     <<8455, 8455, 1>>, <<8459, 8461, 1>>, <<8464, 8466, 1>>, <<8469, 8469, 1>>,
     <<8473, 8477, 1>>, <<8484, 8492, 2>>, <<8491, 8493, 2>>, <<8496, 8499, 1>>,
     <<8510, 8511, 1>>, <<8517, 8517, 1>>, <<8544, 8559, 1>>, <<8579, 8579, 1>>,
     <<9398, 9423, 1>>, <<11264, 11311, 1>>, <<11360, 11364, 2>>, <<11363, 11363, 1>>,
     <<11367, 11375, 2>>, <<11374, 11378, 2>>, <<11381, 11381, 1>>, <<11390, 11490, 2>>,
     <<11391, 11391, 1>>, <<11499, 11501, 2>>, <<11506, 11506, 1>>, <<42560, 42604, 2>>,
     <<42624, 42650, 2>>, <<42786, 42798, 2>>, <<42802, 42862, 2>>, <<42873, 42877, 2>>,
     <<42878, 42886, 2>>, <<42891, 42893, 2>>, <<42896, 42898, 2>>, <<42902, 42950, 2>>,
     <<42923, 42925, 2>>, <<42929, 42931, 2>>, <<42949, 42953, 2>>, <<42960, 42960, 1>>,
     <<42966, 42968, 2>>, <<42997, 42997, 1>>, <<65313, 65338, 1>>, <<66560, 66599, 1>>,
     <<66736, 66771, 1>>, <<66928, 66964, 2>>, <<66929, 66937, 2>>, <<66941, 66953, 2>>,
     <<66957, 66961, 2>>, <<66965, 66965, 1>>, <<68736, 68786, 1>>, <<71840, 71871, 1>>,
     <<93760, 93791, 1>>, <<119808, 119833, 1>>, <<119860, 119885, 1>>, <<119912, 119937, 1>>,
     <<119964, 119966, 2>>, <<119967, 119967, 1>>, <<119970, 119970, 1>>, <<119973, 119974, 1>>,
     <<119977, 119980, 1>>, <<119982, 119989, 1>>, <<120016, 120041, 1>>, <<120068, 120069, 1>>,
     <<120071, 120074, 1>>, <<120077, 120084, 1>>, <<120086, 120092, 1>>, <<120120, 120121, 1>>,
     <<120123, 120126, 1>>, <<120128, 120132, 1>>, <<120134, 120134, 1>>, <<120138, 120144, 1>>,
     <<120172, 120197, 1>>, <<120224, 120249, 1>>, <<120276, 120301, 1>>, <<120328, 120353, 1>>,
     <<120380, 120405, 1>>, <<120432, 120457, 1>>, <<120488, 120512, 1>>, <<120546, 120570, 1>>,
     <<120604, 120628, 1>>, <<120662, 120686, 1>>, <<120720, 120744, 1>>, <<120778, 120778, 1>>,
     <<125184, 125217, 1>>, <<127280, 127305, 1>>, <<127312, 127337, 1>>, <<127344, 127369, 1>> >>)

\* the characters with the property Lowercase
LowercaseChars ==
  RunChars(
  << <<97, 122, 1>>, <<170, 170, 1>>, <<181, 181, 1>>, <<186, 186, 1>>,
     <<223, 246, 1>>, <<248, 255, 1>>, <<257, 311, 2>>, <<312, 328, 2>>,
     <<329, 375, 2>>, <<378, 384, 2>>, <<383, 383, 1>>, <<387, 389, 2>>,
     <<392, 392, 1>>, <<396, 397, 1>>, <<402, 402, 1>>, <<405, 405, 1>>,
     <<409, 411, 1>>, <<414, 414, 1>>, <<417, 421, 2>>, <<424, 426, 2>>,
     <<427, 429, 2>>, <<432, 432, 1>>, <<436, 438, 2>>, <<441, 442, 1>>,
     <<445, 447, 1>>, <<454, 454, 1>>, <<457, 457, 1>>, <<460, 476, 2>>,
     <<477, 495, 2>>, <<496, 496, 1>>, <<499, 501, 2>>, <<505, 569, 2>>,
     <<564, 568, 2>>, <<572, 572, 1>>, <<575, 576, 1>>, <<578, 578, 1>>,
     <<583, 695, 2>>, <<592, 658, 2>>, <<662, 696, 2>>, <<704, 705, 1>>,
     <<736, 740, 1>>, <<837, 837, 1>>, <<881, 883, 2>>, <<887, 887, 1>>,
     <<890, 893, 1>>, <<912, 912, 1>>, <<940, 974, 1>>, <<976, 977, 1>>,
     <<981, 1013, 2>>, <<982, 982, 1>>, <<1008, 1010, 2>>, <<1016, 1016, 1>>,
     <<1019, 1020, 1>>, <<1072, 1119, 1>>, <<1121, 1153, 2>>, <<1163, 1215, 2>>,
     <<1218, 1230, 2>>, <<1231, 1327, 2>>, <<1376, 1416, 1>>, <<4304, 4346, 1>>,
     <<4349, 4351, 1>>, <<5112, 5117, 1>>, <<7296, 7304, 1>>, <<7424, 7615, 1>>,
     <<7681, 7943, 2>>, <<7830, 7836, 2>>, <<7936, 7942, 2>>, <<7952, 7957, 1>>,
     <<7968, 7975, 1>>, <<7984, 7991, 1>>, <<8000, 8005, 1>>, <<8016, 8023, 1>>,
     <<8032, 8039, 1>>, <<8048, 8061, 1>>, <<8064, 8071, 1>>, <<8080, 8087, 1>>,
     <<8096, 8103, 1>>, <<8112, 8116, 1>>, <<8118, 8119, 1>>, <<8126, 8126, 1>>,
     <<8130, 8132, 1>>, <<8134, 8135, 1>>, <<8144, 8147, 1>>, <<8150, 8151, 1>>,
     <<8160, 8167, 1>>, <<8178, 8180, 1>>, <<8182, 8183, 1>>, <<8305, 8305, 1>>,
     <<8319, 8319, 1>>, <<8336, 8348, 1>>, <<8458, 8458, 1>>, <<8462, 8463, 1>>,
     <<8467, 8467, 1>>, <<8495, 8495, 1>>, <<8500, 8500, 1>>, <<8505, 8505, 1>>,
     <<8508, 8509, 1>>, <<8518, 8521, 1>>, <<8526, 8526, 1>>, <<8560, 8575, 1>>,
     <<8580, 8580, 1>>, <<9424, 9449, 1>>, <<11312, 11359, 1>>, <<11361, 11361, 1>>,
     <<11365, 11366, 1>>, <<11368, 11372, 2>>, <<11377, 11379, 2>>, <<11380, 11388, 2>>,
     <<11383, 11389, 2>>, <<11393, 11491, 2>>, <<11492, 11492, 1>>, <<11500, 11502, 2>>,
     <<11507, 11507, 1>>, <<11520, 11557, 1>>, <<11559, 11559, 1>>, <<11565, 11565, 1>>,
     <<42561, 42605, 2>>, <<42625, 42653, 2>>, <<42652, 42652, 1>>, <<42787, 42871, 2>>,
     <<42800, 42800, 1>>, <<42864, 42876, 2>>, <<42879, 42887, 2>>, <<42892, 42894, 2>>,
     <<42897, 42921, 2>>, <<42900, 42900, 1>>, <<42927, 42927, 1>>, <<42933, 42947, 2>>,
     <<42952, 42954, 2>>, <<42961, 42969, 2>>, <<42998, 43002, 2>>, <<43001, 43001, 1>>,
     <<43824, 43866, 1>>, <<43868, 43880, 1>>, <<43888, 43967, 1>>, <<64256, 64262, 1>>,
     <<64275, 64279, 1>>, <<65345, 65370, 1>>, <<66600, 66639, 1>>, <<66776, 66811, 1>>,
     <<66967, 67003, 2>>, <<66968, 66976, 2>>, <<66980, 66992, 2>>, <<66996, 67000, 2>>,
     <<67004, 67004, 1>>, <<67456, 67456, 1>>, <<67459, 67503, 2>>, <<67460, 67460, 1>>,
     <<67464, 67514, 2>>, <<67507, 67513, 2>>, <<68800, 68850, 1>>, <<71872, 71903, 1>>,
     <<93792, 93823, 1>>, <<119834, 119859, 1>>, <<119886, 119910, 2>>, <<119887, 119891, 2>>,
     <<119895, 119911, 2>>, <<119938, 119963, 1>>, <<119990, 119993, 1>>, <<119995, 120015, 2>>,
     <<119998, 120002, 2>>, <<120006, 120014, 2>>, <<120042, 120067, 1>>, <<120094, 120119, 1>>,
     <<120146, 120171, 1>>, <<120198, 120223, 1>>, <<120250, 120275, 1>>, <<120302, 120327, 1>>,
     <<120354, 120379, 1>>, <<120406, 120431, 1>>, <<120458, 120485, 1>>, <<120514, 120538, 1>>,
     <<120540, 120545, 1>>, <<120572, 120596, 1>>, <<120598, 120603, 1>>, <<120630, 120654, 1>>,
     <<120656, 120661, 1>>, <<120688, 120712, 1>>, <<120714, 120719, 1>>, <<120746, 120770, 1>>,
     <<120772, 120777, 1>>, <<120779, 120779, 1>>, <<122624, 122633, 1>>, <<122635, 122654, 1>>,
     <<125218, 125251, 1>> >>)

\* the titlecase letters
TitlecaseChars ==
  RunChars(
  << <<453, 453, 1>>, <<456, 456, 1>>, <<459, 459, 1>>, <<498, 498, 1>>,
     <<8072, 8079, 1>>, <<8088, 8095, 1>>, <<8104, 8111, 1>>, <<8124, 8124, 1>>,
     <<8140, 8140, 1>>, <<8188, 8188, 1>> >>)

\* the characters with the property Case_Ignorable
CaseIgnorableChars ==
  RunChars(
  << <<39, 39, 1>>, <<46, 46, 1>>, <<58, 58, 1>>, <<94, 96, 2>>,
     <<168, 168, 1>>, <<173, 175, 2>>, <<180, 180, 1>>, <<183, 184, 1>>,
     <<688, 879, 1>>, <<884, 885, 1>>, <<890, 890, 1>>, <<900, 901, 1>>,
     <<903, 903, 1>>, <<1155, 1161, 1>>, <<1369, 1369, 1>>, <<1375, 1375, 1>>,
     <<1425, 1469, 1>>, <<1471, 1473, 2>>, <<1474, 1476, 2>>, <<1477, 1479, 2>>,
     <<1524, 1524, 1>>, <<1536, 1541, 1>>, <<1552, 1562, 1>>, <<1564, 1564, 1>>,
     <<1600, 1600, 1>>, <<1611, 1631, 1>>, <<1648, 1648, 1>>, <<1750, 1757, 1>>,
     <<1759, 1768, 1>>, <<1770, 1773, 1>>, <<1807, 1809, 2>>, <<1840, 1866, 1>>,
     <<1958, 1968, 1>>, <<2027, 2037, 1>>, <<2042, 2042, 1>>, <<2045, 2045, 1>>,
     <<2070, 2093, 1>>, <<2137, 2139, 1>>, <<2184, 2184, 1>>, <<2192, 2193, 1>>,
     <<2200, 2207, 1>>, <<2249, 2306, 1>>, <<2362, 2364, 2>>, <<2369, 2376, 1>>,
     <<2381, 2381, 1>>, <<2385, 2391, 1>>, <<2402, 2403, 1>>, <<2417, 2417, 1>>,
     <<2433, 2433, 1>>, <<2492, 2492, 1>>, <<2497, 2500, 1>>, <<2509, 2509, 1>>,
     <<2530, 2531, 1>>, <<2558, 2558, 1>>, <<2561, 2562, 1>>, <<2620, 2620, 1>>,
     <<2625, 2626, 1>>, <<2631, 2632, 1>>, <<2635, 2637, 1>>, <<2641, 2641, 1>>,
     <<2672, 2673, 1>>, <<2677, 2677, 1>>, <<2689, 2690, 1>>, <<2748, 2748, 1>>,
     <<2753, 2757, 1>>, <<2759, 2760, 1>>, <<2765, 2765, 1>>, <<2786, 2787, 1>>,
     <<2810, 2815, 1>>, <<2817, 2817, 1>>, <<2876, 2876, 1>>, <<2879, 2883, 2>>,
     <<2882, 2884, 2>>, <<2893, 2893, 1>>, <<2901, 2902, 1>>, <<2914, 2915, 1>>,
     <<2946, 2946, 1>>, <<3008, 3008, 1>>, <<3021, 3021, 1>>, <<3072, 3072, 1>>,
     <<3076, 3076, 1>>, <<3132, 3136, 2>>, <<3135, 3135, 1>>, <<3142, 3148, 2>>,
     <<3143, 3143, 1>>, <<3147, 3149, 2>>, <<3157, 3158, 1>>, <<3170, 3171, 1>>,
     <<3201, 3201, 1>>, <<3260, 3260, 1>>, <<3263, 3263, 1>>, <<3270, 3270, 1>>,
     <<3276, 3277, 1>>, <<3298, 3299, 1>>, <<3328, 3329, 1>>, <<3387, 3388, 1>>,
     <<3393, 3396, 1>>, <<3405, 3405, 1>>, <<3426, 3427, 1>>, <<3457, 3457, 1>>,
     <<3530, 3530, 1>>, <<3538, 3540, 1>>, <<3542, 3542, 1>>, <<3633, 3633, 1>>,
     <<3636, 3642, 1>>, <<3654, 3662, 1>>, <<3761, 3761, 1>>, <<3764, 3772, 1>>,
     <<3782, 3788, 2>>, <<3785, 3789, 2>>, <<3864, 3865, 1>>, <<3893, 3897, 2>>,
     <<3953, 3966, 1>>, <<3968, 3972, 1>>, <<3974, 3975, 1>>, <<3981, 4027, 2>>,
     <<3982, 3990, 2>>, <<3994, 4028, 2>>, <<4038, 4038, 1>>, <<4141, 4144, 1>>,
     <<4146, 4151, 1>>, <<4153, 4154, 1>>, <<4157, 4158, 1>>, <<4184, 4185, 1>>,
     <<4190, 4192, 1>>, <<4209, 4212, 1>>, <<4226, 4226, 1>>, <<4229, 4230, 1>>,
     <<4237, 4237, 1>>, <<4253, 4253, 1>>, <<4348, 4348, 1>>, <<4957, 4959, 1>>,
     <<5906, 5908, 1>>, <<5938, 5939, 1>>, <<5970, 5971, 1>>, <<6002, 6003, 1>>,
     <<6068, 6069, 1>>, <<6071, 6077, 1>>, <<6086, 6086, 1>>, <<6089, 6099, 1>>,
     <<6103, 6103, 1>>, <<6109, 6109, 1>>, <<6155, 6159, 1>>, <<6211, 6211, 1>>,
     <<6277, 6278, 1>>, <<6313, 6313, 1>>, <<6432, 6434, 1>>, <<6439, 6440, 1>>,
     <<6450, 6450, 1>>, <<6457, 6459, 1>>, <<6679, 6680, 1>>, <<6683, 6683, 1>>,
     <<6742, 6754, 2>>, <<6745, 6749, 2>>, <<6757, 6764, 1>>, <<6771, 6780, 1>>,
     <<6783, 6783, 1>>, <<6823, 6823, 1>>, <<6832, 6862, 1>>, <<6912, 6915, 1>>,
     <<6964, 6972, 2>>, <<6967, 6969, 2>>, <<6978, 6978, 1>>, <<7019, 7027, 1>>,
     <<7040, 7041, 1>>, <<7074, 7077, 1>>, <<7080, 7081, 1>>, <<7083, 7085, 1>>,
     <<7142, 7144, 2>>, <<7145, 7145, 1>>, <<7149, 7153, 2>>, <<7152, 7152, 1>>,
     <<7212, 7219, 1>>, <<7222, 7223, 1>>, <<7288, 7293, 1>>, <<7376, 7400, 2>>,
     <<7377, 7377, 1>>, <<7381, 7391, 2>>, <<7395, 7399, 2>>, <<7405, 7405, 1>>,
     <<7412, 7412, 1>>, <<7416, 7417, 1>>, <<7468, 7530, 1>>, <<7544, 7544, 1>>,
     <<7579, 7679, 1>>, <<8125, 8129, 2>>, <<8128, 8128, 1>>, <<8141, 8143, 1>>,
     <<8157, 8159, 1>>, <<8173, 8175, 1>>, <<8189, 8190, 1>>, <<8203, 8207, 1>>,
     <<8216, 8217, 1>>, <<8228, 8228, 1>>, <<8231, 8231, 1>>, <<8234, 8238, 1>>,
     <<8288, 8302, 2>>, <<8289, 8291, 2>>, <<8295, 8305, 2>>, <<8319, 8319, 1>>,
     <<8336, 8348, 1>>, <<8400, 8432, 1>>, <<11388, 11389, 1>>, <<11503, 11505, 1>>,
     <<11631, 11631, 1>>, <<11647, 11647, 1>>, <<11744, 11775, 1>>, <<11823, 11823, 1>>,
     <<12293, 12293, 1>>, <<12330, 12333, 1>>, <<12337, 12341, 1>>, <<12347, 12347, 1>>,
     <<12441, 12446, 1>>, <<12540, 12542, 1>>, <<40981, 40981, 1>>, <<42232, 42237, 1>>,
     <<42508, 42508, 1>>, <<42607, 42610, 1>>, <<42612, 42621, 1>>, <<42623, 42623, 1>>,
     <<42652, 42655, 1>>, <<42736, 42737, 1>>, <<42752, 42785, 1>>, <<42864, 42864, 1>>,
     <<42888, 42890, 1>>, <<42994, 42996, 1>>, <<43000, 43001, 1>>, <<43010, 43010, 1>>,
     <<43014, 43014, 1>>, <<43019, 43019, 1>>, <<43045, 43046, 1>>, <<43052, 43052, 1>>,
     <<43204, 43205, 1>>, <<43232, 43249, 1>>, <<43263, 43263, 1>>, <<43302, 43309, 1>>,
     <<43335, 43345, 1>>, <<43392, 43394, 1>>, <<43443, 43443, 1>>, <<43446, 43449, 1>>,
     <<43452, 43453, 1>>, <<43471, 43471, 1>>, <<43493, 43494, 1>>, <<43561, 43566, 1>>,
     <<43569, 43570, 1>>, <<43573, 43574, 1>>, <<43587, 43587, 1>>, <<43596, 43596, 1>>,
     <<43632, 43632, 1>>, <<43644, 43644, 1>>, <<43696, 43700, 2>>, <<43699, 43699, 1>>,
     <<43703, 43704, 1>>, <<43710, 43711, 1>>, <<43713, 43713, 1>>, <<43741, 43741, 1>>,
     <<43756, 43757, 1>>, <<43763, 43764, 1>>, <<43766, 43766, 1>>, <<43867, 43871, 1>>,
     <<43881, 43883, 1>>, <<44005, 44005, 1>>, <<44008, 44008, 1>>, <<44013, 44013, 1>>,
     <<64286, 64286, 1>>, <<64434, 64450, 1>>, <<65024, 65039, 1>>, <<65043, 65043, 1>>,
     <<65056, 65071, 1>>, <<65106, 65106, 1>>, <<65109, 65109, 1>>, <<65279, 65279, 1>>,
     <<65287, 65287, 1>>, <<65294, 65294, 1>>, <<65306, 65306, 1>>, <<65342, 65344, 2>>,
     <<65392, 65392, 1>>, <<65438, 65439, 1>>, <<65507, 65507, 1>>, <<65529, 65531, 1>>,
     <<66045, 66045, 1>>, <<66272, 66272, 1>>, <<66422, 66426, 1>>, <<67456, 67461, 1>>,
     <<67463, 67504, 1>>, <<67506, 67514, 1>>, <<68097, 68099, 1>>, <<68101, 68102, 1>>,
     <<68108, 68111, 1>>, <<68152, 68154, 1>>, <<68159, 68159, 1>>, <<68325, 68326, 1>>,
     <<68900, 68903, 1>>, <<69291, 69292, 1>>, <<69446, 69456, 1>>, <<69506, 69509, 1>>,
     <<69633, 69633, 1>>, <<69688, 69702, 1>>, <<69744, 69744, 1>>, <<69747, 69748, 1>>,
     <<69759, 69761, 1>>, <<69811, 69814, 1>>, <<69817, 69818, 1>>, <<69821, 69821, 1>>,
     <<69826, 69826, 1>>, <<69837, 69837, 1>>, <<69888, 69890, 1>>, <<69927, 69939, 2>>,
     <<69928, 69930, 2>>, <<69934, 69940, 2>>, <<70003, 70003, 1>>, <<70016, 70017, 1>>,
     <<70070, 70078, 1>>, <<70089, 70092, 1>>, <<70095, 70095, 1>>, <<70191, 70193, 1>>,
     <<70196, 70198, 2>>, <<70199, 70199, 1>>, <<70206, 70206, 1>>, <<70367, 70367, 1>>,
     <<70371, 70378, 1>>, <<70400, 70401, 1>>, <<70459, 70460, 1>>, <<70464, 70464, 1>>,
     <<70502, 70508, 1>>, <<70512, 70516, 1>>, <<70712, 70719, 1>>, <<70722, 70724, 1>>,
     <<70726, 70726, 1>>, <<70750, 70750, 1>>, <<70835, 70840, 1>>, <<70842, 70842, 1>>,
     <<70847, 70848, 1>>, <<70850, 70851, 1>>, <<71090, 71093, 1>>, <<71100, 71101, 1>>,
     <<71103, 71104, 1>>, <<71132, 71133, 1>>, <<71219, 71226, 1>>, <<71229, 71231, 2>>,
     <<71232, 71232, 1>>, <<71339, 71341, 2>>, <<71344, 71349, 1>>, <<71351, 71351, 1>>,
     <<71453, 71455, 1>>, <<71458, 71461, 1>>, <<71463, 71467, 1>>, <<71727, 71735, 1>>,
     <<71737, 71738, 1>>, <<71995, 71996, 1>>, <<71998, 71998, 1>>, <<72003, 72003, 1>>,
     <<72148, 72151, 1>>, <<72154, 72155, 1>>, <<72160, 72160, 1>>, <<72193, 72202, 1>>,
     <<72243, 72248, 1>>, <<72251, 72254, 1>>, <<72263, 72263, 1>>, <<72273, 72278, 1>>,
     <<72281, 72283, 1>>, <<72330, 72342, 1>>, <<72344, 72345, 1>>, <<72752, 72758, 1>>,
     <<72760, 72765, 1>>, <<72767, 72767, 1>>, <<72850, 72871, 1>>, <<72874, 72880, 1>>,
     <<72882, 72883, 1>>, <<72885, 72886, 1>>, <<73009, 73014, 1>>, <<73018, 73020, 2>>,
     <<73021, 73031, 2>>, <<73024, 73028, 2>>, <<73104, 73105, 1>>, <<73109, 73111, 2>>,
     <<73459, 73460, 1>>, <<78896, 78904, 1>>, <<92912, 92916, 1>>, <<92976, 92982, 1>>,
     <<92992, 92995, 1>>, <<94031, 94031, 1>>, <<94095, 94111, 1>>, <<94176, 94177, 1>>,
     <<94179, 94180, 1>>, <<110576, 110579, 1>>, <<110581, 110587, 1>>, <<110589, 110590, 1>>,
     <<113821, 113822, 1>>, <<113824, 113827, 1>>, <<118528, 118573, 1>>, <<118576, 118598, 1>>,
     <<119143, 119145, 1>>, <<119155, 119170, 1>>, <<119173, 119179, 1>>, <<119210, 119213, 1>>,
     <<119362, 119364, 1>>, <<121344, 121398, 1>>, <<121403, 121452, 1>>, <<121461, 121461, 1>>,
     <<121476, 121476, 1>>, <<121499, 121519, 2>>, <<121500, 121502, 2>>, <<121506, 121518, 2>>,
     <<122880, 122904, 2>>, <<122881, 122885, 2>>, <<122889, 122903, 2>>, <<122907, 122913, 1>>,
     <<122915, 122916, 1>>, <<122918, 122922, 1>>, <<123184, 123197, 1>>, <<123566, 123566, 1>>,
     <<123628, 123631, 1>>, <<125136, 125142, 1>>, <<125252, 125259, 1>>, <<127995, 127999, 1>>,
     <<917505, 917505, 1>>, <<917536, 917631, 1>>, <<917760, 917999, 1>> >>)

\* the pairs <<character, offset>> of a sequence of such runs
RunPairs(runs) ==
  UNION {{<<runs[i][1] + runs[i][3] * k, runs[i][4]>> :
            k \in 0..((runs[i][2] - runs[i][1]) \div runs[i][3])} : i \in 1..Len(runs)}

\* the function a set of pairs <<argument, value>> is the graph of
FunctionOf(pairs) ==
  [c \in {p[1] : p \in pairs} |-> (CHOOSE p \in pairs : p[1] = c)[2]]

\* the characters whose lowercase is another single character, as runs
\* <<first, last, step, offset of the lowercase>>
ToLowerOffset ==
  FunctionOf(RunPairs(
  << <<65, 90, 1, 32>>, <<192, 214, 1, 32>>, <<216, 222, 1, 32>>,
     <<256, 302, 2, 1>>, <<306, 310, 2, 1>>, <<313, 327, 2, 1>>,
     <<330, 374, 2, 1>>, <<376, 376, 1, -121>>, <<377, 381, 2, 1>>,
     <<385, 385, 1, 210>>, <<386, 388, 2, 1>>, <<390, 390, 1, 206>>,
     <<391, 391, 1, 1>>, <<393, 394, 1, 205>>, <<395, 395, 1, 1>>,
     <<398, 398, 1, 79>>, <<399, 399, 1, 202>>, <<400, 400, 1, 203>>,
     <<401, 401, 1, 1>>, <<403, 403, 1, 205>>, <<404, 404, 1, 207>>,
     <<406, 406, 1, 211>>, <<407, 407, 1, 209>>, <<408, 408, 1, 1>>,
     <<412, 412, 1, 211>>, <<413, 413, 1, 213>>, <<415, 415, 1, 214>>,
     <<416, 420, 2, 1>>, <<422, 422, 1, 218>>, <<423, 423, 1, 1>>,
     <<425, 425, 1, 218>>, <<428, 428, 1, 1>>, <<430, 430, 1, 218>>,
     <<431, 431, 1, 1>>, <<433, 434, 1, 217>>, <<435, 437, 2, 1>>,
     <<439, 439, 1, 219>>, <<440, 440, 1, 1>>, <<444, 444, 1, 1>>,
     <<452, 452, 1, 2>>, <<453, 453, 1, 1>>, <<455, 455, 1, 2>>,
     <<456, 456, 1, 1>>, <<458, 458, 1, 2>>, <<459, 475, 2, 1>>,
     <<478, 494, 2, 1>>, <<497, 497, 1, 2>>, <<498, 500, 2, 1>>,
     <<502, 502, 1, -97>>, <<503, 503, 1, -56>>, <<504, 542, 2, 1>>,
     <<544, 544, 1, -130>>, <<546, 562, 2, 1>>, <<570, 570, 1, 10795>>,
     <<571, 571, 1, 1>>, <<573, 573, 1, -163>>, <<574, 574, 1, 10792>>,
     <<577, 577, 1, 1>>, <<579, 579, 1, -195>>, <<580, 580, 1, 69>>,
     <<581, 581, 1, 71>>, <<582, 590, 2, 1>>, <<880, 882, 2, 1>>,
     <<886, 886, 1, 1>>, <<895, 895, 1, 116>>, <<902, 902, 1, 38>>,
     <<904, 906, 1, 37>>, <<908, 908, 1, 64>>, <<910, 911, 1, 63>>,
     <<913, 929, 1, 32>>, <<931, 939, 1, 32>>, <<975, 975, 1, 8>>,
     <<984, 1006, 2, 1>>, <<1012, 1012, 1, -60>>, <<1015, 1015, 1, 1>>,
     <<1017, 1017, 1, -7>>, <<1018, 1018, 1, 1>>, <<1021, 1023, 1, -130>>,
     <<1024, 1039, 1, 80>>, <<1040, 1071, 1, 32>>, <<1120, 1152, 2, 1>>,
     <<1162, 1214, 2, 1>>, <<1216, 1216, 1, 15>>, <<1217, 1229, 2, 1>>,
     <<1232, 1326, 2, 1>>, <<1329, 1366, 1, 48>>, <<4256, 4293, 1, 7264>>,
     <<4295, 4295, 1, 7264>>, <<4301, 4301, 1, 7264>>, <<5024, 5103, 1, 38864>>,
     <<5104, 5109, 1, 8>>, <<7312, 7354, 1, -3008>>, <<7357, 7359, 1, -3008>>,
     <<7680, 7828, 2, 1>>, <<7838, 7838, 1, -7615>>, <<7840, 7934, 2, 1>>,
     <<7944, 7951, 1, -8>>, <<7960, 7965, 1, -8>>, <<7976, 7983, 1, -8>>,
     <<7992, 7999, 1, -8>>, <<8008, 8013, 1, -8>>, <<8025, 8031, 2, -8>>,
     <<8040, 8047, 1, -8>>, <<8072, 8079, 1, -8>>, <<8088, 8095, 1, -8>>,
     <<8104, 8111, 1, -8>>, <<8120, 8121, 1, -8>>, <<8122, 8123, 1, -74>>,
     <<8124, 8124, 1, -9>>, <<8136, 8139, 1, -86>>, <<8140, 8140, 1, -9>>,
     <<8152, 8153, 1, -8>>, <<8154, 8155, 1, -100>>, <<8168, 8169, 1, -8>>,
     <<8170, 8171, 1, -112>>, <<8172, 8172, 1, -7>>, <<8184, 8185, 1, -128>>,
     <<8186, 8187, 1, -126>>, <<8188, 8188, 1, -9>>, <<8486, 8486, 1, -7517>>,
     <<8490, 8490, 1, -8383>>, <<8491, 8491, 1, -8262>>, <<8498, 8498, 1, 28>>,
     <<8544, 8559, 1, 16>>, <<8579, 8579, 1, 1>>, <<9398, 9423, 1, 26>>,
     <<11264, 11311, 1, 48>>, <<11360, 11360, 1, 1>>, <<11362, 11362, 1, -10743>>,
     <<11363, 11363, 1, -3814>>, <<11364, 11364, 1, -10727>>, <<11367, 11371, 2, 1>>,
     <<11373, 11373, 1, -10780>>, <<11374, 11374, 1, -10749>>, <<11375, 11375, 1, -10783>>,
     <<11376, 11376, 1, -10782>>, <<11378, 11378, 1, 1>>, <<11381, 11381, 1, 1>>,
     <<11390, 11391, 1, -10815>>, <<11392, 11490, 2, 1>>, <<11499, 11501, 2, 1>>,
     <<11506, 11506, 1, 1>>, <<42560, 42604, 2, 1>>, <<42624, 42650, 2, 1>>,
     <<42786, 42798, 2, 1>>, <<42802, 42862, 2, 1>>, <<42873, 42875, 2, 1>>,
     <<42877, 42877, 1, -35332>>, <<42878, 42886, 2, 1>>, <<42891, 42891, 1, 1>>,
     <<42893, 42893, 1, -42280>>, <<42896, 42898, 2, 1>>, <<42902, 42920, 2, 1>>,
     <<42922, 42922, 1, -42308>>, <<42923, 42923, 1, -42319>>, <<42924, 42924, 1, -42315>>,
     <<42925, 42925, 1, -42305>>, <<42926, 42926, 1, -42308>>, <<42928, 42928, 1, -42258>>,
     <<42929, 42929, 1, -42282>>, <<42930, 42930, 1, -42261>>, <<42931, 42931, 1, 928>>,
     <<42932, 42946, 2, 1>>, <<42948, 42948, 1, -48>>, <<42949, 42949, 1, -42307>>,
     <<42950, 42950, 1, -35384>>, <<42951, 42953, 2, 1>>, <<42960, 42960, 1, 1>>,
     <<42966, 42968, 2, 1>>, <<42997, 42997, 1, 1>>, <<65313, 65338, 1, 32>>,
     <<66560, 66599, 1, 40>>, <<66736, 66771, 1, 40>>, <<66928, 66964, 2, 39>>,
     <<66929, 66937, 2, 39>>, <<66941, 66953, 2, 39>>, <<66957, 66961, 2, 39>>,
     <<66965, 66965, 1, 39>>, <<68736, 68786, 1, 64>>, <<71840, 71871, 1, 32>>,
     <<93760, 93791, 1, 32>>, <<125184, 125217, 1, 34>> >>))

\* the least and the greatest element of a non-empty set of positions, and
\* its k-th element in increasing order
Least(S) == CHOOSE i \in S : \A j \in S : i <= j

Greatest(S) == CHOOSE i \in S : \A j \in S : j <= i

Nth(S, k) == CHOOSE i \in S : Cardinality({j \in S : j <= i}) = k

\* str.strip()
lstrip(s) ==
  LET kept == {i \in 1..Len(s) : s[i] \notin WhitespaceChars}
  IN  IF kept = {} THEN <<>> ELSE SubSeq(s, Least(kept), Len(s))

rstrip(s) ==
  LET kept == {i \in 1..Len(s) : s[i] \notin WhitespaceChars}
  IN  IF kept = {} THEN <<>> ELSE SubSeq(s, 1, Greatest(kept))

strip(s) == rstrip(lstrip(s))

\* the positions where a maximal run of characters (not) in chars starts
\* and where it ends
RunStarts(s, chars, inside) ==
  {i \in 1..Len(s) : /\ (s[i] \in chars) = inside
                     /\ (i = 1 \/ (s[i - 1] \in chars) # inside)}

RunEnds(s, chars, inside) ==
  {i \in 1..Len(s) : /\ (s[i] \in chars) = inside
                     /\ (i = Len(s) \/ (s[i + 1] \in chars) # inside)}

\* str.split(): the maximal runs of non-whitespace characters
split(s) ==
  LET starts == RunStarts(s, WhitespaceChars, FALSE)
      ends   == RunEnds(s, WhitespaceChars, FALSE)
  IN  [k \in 1..Cardinality(starts) |-> SubSeq(s, Nth(starts, k), Nth(ends, k))]

\* re.split(r'[.!?]+', s): the pieces between runs of terminators, empty
\* pieces at either end included
SentenceTerminators == {46, 33, 63}

re_split(s) ==
  LET starts == RunStarts(s, SentenceTerminators, TRUE)
      ends   == RunEnds(s, SentenceTerminators, TRUE)
      n      == Cardinality(starts)
  IN  [k \in 1..(n + 1) |->
         LET first == IF k = 1 THEN 1 ELSE Nth(ends, k - 1) + 1
             last  == IF k = n + 1 THEN Len(s) ELSE Nth(starts, k) - 1
         IN  IF first > last THEN <<>> ELSE SubSeq(s, first, last)]

\* the concatenation of the sequences q[a..b]
RECURSIVE ConcatRange(_, _, _)
ConcatRange(q, a, b) ==
  IF a > b THEN <<>>
  ELSE IF a = b THEN q[a]
  ELSE ConcatRange(q, a, (a + b) \div 2) \o ConcatRange(q, ((a + b) \div 2) + 1, b)

Concat(q) ==
  IF \A i \in 1..Len(q) : Len(q[i]) = 1 THEN [i \in 1..Len(q) |-> q[i][1]]
  ELSE ConcatRange(q, 1, Len(q))

\* a capital sigma is final when a cased letter comes before it and none
\* after it, case-ignorable characters skipped on both sides
FinalBetween(s, before, after, cased) ==
  /\ before # {}
  /\ s[Greatest(before)] \in cased
  /\ after = {} \/ s[Least(after)] \notin cased

\* the positions of s that hold no character of the set
Outside(s, chars) == {j \in 1..Len(s) : s[j] \notin chars}

FinalAmong(s, i, kept) ==
  FinalBetween(s, {j \in kept : j < i}, {j \in kept : j > i},
               UppercaseChars \cup LowercaseChars \cup TitlecaseChars)

FinalSigma(s, i) == FinalAmong(s, i, Outside(s, CaseIgnorableChars))

\* what str.lower() puts for the character at position i of s
Moved(c, offset) == IF c \in DOMAIN offset THEN c + offset[c] ELSE c

LowerAt(s, i) ==
  IF s[i] = 931 THEN <<IF FinalSigma(s, i) THEN 962 ELSE 963>>
  ELSE IF s[i] = 304 THEN <<105, 775>>
  ELSE <<Moved(s[i], ToLowerOffset)>>

\* str.lower()
lower(s) == Concat([i \in 1..Len(s) |-> LowerAt(s, i)])

\* str.isupper(): no lowercase or titlecase character and some uppercase one
isupper(s) ==
  /\ \A i \in 1..Len(s) : s[i] \notin LowercaseChars \cup TitlecaseChars
  /\ \E i \in 1..Len(s) : s[i] \in UppercaseChars

\* sub in s
Contains(s, sub) ==
  \E i \in 1..(Len(s) - Len(sub) + 1) : SubSeq(s, i, i + Len(sub) - 1) = sub

\* s.count(sub): non-overlapping occurrences, scanning left to right
RECURSIVE CountFrom(_, _, _)
CountFrom(s, sub, i) ==
  LET hits == {j \in i..(Len(s) - Len(sub) + 1) : SubSeq(s, j, j + Len(sub) - 1) = sub}
  IN  IF hits = {} THEN 0 ELSE 1 + CountFrom(s, sub, Least(hits) + Len(sub))

count(s, sub) ==
  IF Len(sub) = 1 THEN Cardinality({i \in 1..Len(s) : s[i] = sub[1]})
  ELSE CountFrom(s, sub, 1)

\* len(re.findall(r'(.)\1{2,}', s)): '.' excludes the newline, the
\* quantifier is greedy and matches do not overlap
RunLen(s, i) ==
  LET others == {j \in (i + 1)..Len(s) : s[j] # s[i]}
  IN  IF others = {} THEN Len(s) - i + 1 ELSE Least(others) - i

RECURSIVE RepeatedFrom(_, _)
RepeatedFrom(s, i) ==
  LET hits == {j \in i..(Len(s) - 2) :
                 s[j] # 10 /\ s[j + 1] = s[j] /\ s[j + 2] = s[j]}
  IN  IF hits = {} THEN 0
      ELSE 1 + RepeatedFrom(s, Least(hits) + RunLen(s, Least(hits)))

\* sum(q[a..b])
RECURSIVE SumRange(_, _, _)
SumRange(q, a, b) ==
  IF a > b THEN 0
  ELSE IF a = b THEN q[a]
  ELSE SumRange(q, a, (a + b) \div 2) + SumRange(q, ((a + b) \div 2) + 1, b)

SumSeq(q) == SumRange(q, 1, Len(q))

Max(a, b) == IF a > b THEN a ELSE b

ai_phrases ==
  << \* as an ai
     <<97, 115, 32, 97, 110, 32, 97, 105>>,
     \* language model
     <<108, 97, 110, 103, 117, 97, 103, 101, 32, 109, 111, 100, 101, 108>>,
     \* i don't have
     <<105, 32, 100, 111, 110, 39, 116, 32, 104, 97, 118, 101>>,
     \* i cannot
     <<105, 32, 99, 97, 110, 110, 111, 116>>,
     \* i can't
     <<105, 32, 99, 97, 110, 39, 116>>,
     \* it's important to note
     <<105, 116, 39, 115, 32, 105, 109, 112, 111, 114, 116, 97, 110, 116, 32, 116, 111, 32, 110, 111, 116, 101>>,
     \* it is important to note
     <<105, 116, 32, 105, 115, 32, 105, 109, 112, 111, 114, 116, 97, 110, 116, 32, 116, 111, 32, 110, 111, 116, 101>>,
     \* in conclusion
     <<105, 110, 32, 99, 111, 110, 99, 108, 117, 115, 105, 111, 110>>,
     \* furthermore
     <<102, 117, 114, 116, 104, 101, 114, 109, 111, 114, 101>>,
     \* moreover
     <<109, 111, 114, 101, 111, 118, 101, 114>>,
     \* however
     <<104, 111, 119, 101, 118, 101, 114>>,
     \* it's worth noting
     <<105, 116, 39, 115, 32, 119, 111, 114, 116, 104, 32, 110, 111, 116, 105, 110, 103>>,
     \* it is worth noting
     <<105, 116, 32, 105, 115, 32, 119, 111, 114, 116, 104, 32, 110, 111, 116, 105, 110, 103>>,
     \* i apologize
     <<105, 32, 97, 112, 111, 108, 111, 103, 105, 122, 101>>,
     \* i'm sorry
     <<105, 39, 109, 32, 115, 111, 114, 114, 121>>,
     \* my apologies
     <<109, 121, 32, 97, 112, 111, 108, 111, 103, 105, 101, 115>>,
     \* delve into
     <<100, 101, 108, 118, 101, 32, 105, 110, 116, 111>>,
     \* navigating
     <<110, 97, 118, 105, 103, 97, 116, 105, 110, 103>>,
     \* landscape of
     <<108, 97, 110, 100, 115, 99, 97, 112, 101, 32, 111, 102>>,
     \* realm of
     <<114, 101, 97, 108, 109, 32, 111, 102>>,
     \* it's crucial
     <<105, 116, 39, 115, 32, 99, 114, 117, 99, 105, 97, 108>>,
     \* underscores the importance
     <<117, 110, 100, 101, 114, 115, 99, 111, 114, 101, 115, 32, 116, 104, 101, 32, 105, 109, 112, 111, 114, 116, 97, 110, 99, 101>> >>

contractions ==
  << \* n't
     <<110, 39, 116>>,
     \* 'm
     <<39, 109>>,
     \* 're
     <<39, 114, 101>>,
     \* 've
     <<39, 118, 101>>,
     \* 'll
     <<39, 108, 108>>,
     \* 'd
     <<39, 100>>,
     \* 's
     <<39, 115>> >>

slang_words ==
  << \* lol
     <<108, 111, 108>>,
     \* omg
     <<111, 109, 103>>,
     \* btw
     <<98, 116, 119>>,
     \* idk
     <<105, 100, 107>>,
     \* tbh
     <<116, 98, 104>>,
     \* ngl
     <<110, 103, 108>>,
     \* fr
     <<102, 114>>,
     \* rn
     <<114, 110>>,
     \* gonna
     <<103, 111, 110, 110, 97>>,
     \* wanna
     <<119, 97, 110, 110, 97>>,
     \* gotta
     <<103, 111, 116, 116, 97>> >>

formal_transitions ==
  << \* furthermore
     <<102, 117, 114, 116, 104, 101, 114, 109, 111, 114, 101>>,
     \* moreover
     <<109, 111, 114, 101, 111, 118, 101, 114>>,
     \* additionally
     <<97, 100, 100, 105, 116, 105, 111, 110, 97, 108, 108, 121>>,
     \* consequently
     <<99, 111, 110, 115, 101, 113, 117, 101, 110, 116, 108, 121>>,
     \* therefore
     <<116, 104, 101, 114, 101, 102, 111, 114, 101>>,
     \* thus
     <<116, 104, 117, 115>>,
     \* hence
     <<104, 101, 110, 99, 101>>,
     \* accordingly
     <<97, 99, 99, 111, 114, 100, 105, 110, 103, 108, 121>>,
     \* nevertheless
     <<110, 101, 118, 101, 114, 116, 104, 101, 108, 101, 115, 115>> >>

(***************************************************************************)
(* numpy.  np.var of a list of ints: the mean of the squared distances to  *)
(* the mean, in float64, the sums taken by numpy's pairwise summation.     *)
(***************************************************************************)
\* res + q[i] + q[i + step] + ..., up to position j, added from the left
RECURSIVE AddFrom(_, _, _, _, _)
AddFrom(res, q, i, step, j) ==
  IF i > j THEN res ELSE AddFrom(FAdd(res, q[i]), q, i + step, step, j)

\* the sum of the n floats q[first], q[first + 1], ...: one by one below 8
\* terms, with eight interleaved partial sums up to 128 terms, by halves
\* above
\* r[a] + ... + r[b] added by halves: ((r0 + r1) + (r2 + r3)) + ((r4 + r5)
\* + (r6 + r7)) for the eight partial sums
RECURSIVE HalvesSum(_, _, _)
HalvesSum(r, a, b) ==
  IF a = b THEN r[a]
  ELSE FAdd(HalvesSum(r, a, (a + b - 1) \div 2), HalvesSum(r, ((a + b - 1) \div 2) + 1, b))

RECURSIVE pairwise_sum(_, _, _)
pairwise_sum(q, first, n) ==
  IF n < 8 THEN AddFrom(FZero(FALSE), q, first, 1, first + n - 1)
  ELSE IF n <= 128
  THEN AddFrom(HalvesSum([k \in 0..7 |->
                            AddFrom(q[first + k], q, first + k + 8, 8,
                                    first + (n - (n % 8)) - 1)], 0, 7),
               q, first + (n - (n % 8)), 1, first + n - 1)
  ELSE LET n2 == (n \div 2) - ((n \div 2) % 8)
       IN  FAdd(pairwise_sum(q, first, n2), pairwise_sum(q, first + n2, n - n2))

\* np.var(xs) for a non-empty list of ints
\* the sum is np.add.reduce: the identity 0.0 plus the pairwise sum
mean(arr) == FDivInt(FAdd(FZero(FALSE), pairwise_sum(arr, 1, Len(arr))), Len(arr))

\* x - arrmean, then x * x, elementwise
Deviations(arr, arrmean) == [i \in 1..Len(arr) |-> FSub(arr[i], arrmean)]

Squares(x) == [i \in 1..Len(x) |-> FMul(x[i], x[i])]

var(xs) ==
  mean(Squares(Deviations([i \in 1..Len(xs) |-> FromInt(xs[i])],
                          mean([i \in 1..Len(xs) |-> FromInt(xs[i])]))))

(***************************************************************************)
(* analyze_text_features                                                   *)
(***************************************************************************)
\* lines 41-42: the stripped non-empty pieces of the sentence split
sentences_of(text) ==
  LET pieces == re_split(text)
  IN  SelectSeq([i \in 1..Len(pieces) |-> strip(pieces[i])], LAMBDA s : s # <<>>)

\* mutant: the denominator without its guard
avg_sentence_length_unguarded(word_count, sentences) ==
  IF Len(sentences) = 0 THEN FZero(FALSE) ELSE TrueDiv(word_count, Len(sentences))

\* line 44
avg_sentence_length(word_count, sentences) ==
  TrueDiv(word_count, Max(Len(sentences), 1))

\* lines 47-51; the int 0 of line 51 is held as the float 0.0
sentence_length_variance(sentences) ==
  IF Len(sentences) > 1
  THEN var([i \in 1..Len(sentences) |-> Len(split(sentences[i]))])
  ELSE FromInt(0)

\* the features of a text, given its words, its sentences, its lowercased
\* words and its lowercase form
features_of(text, words, nwords, sentences, words_lower, text_lower) ==
  LET uppercase_words ==
        Cardinality({i \in 1..nwords : isupper(words[i]) /\ Len(words[i]) > 1})
  IN  [ word_count      |-> nwords,
        char_count      |-> Len(text),
        avg_word_length |->
          TrueDiv(SumSeq([i \in 1..nwords |-> Len(words[i])]), Max(nwords, 1)),
        sentence_count  |-> Len(sentences),
        avg_sentence_length |-> avg_sentence_length(nwords, sentences),
        sentence_length_variance |-> sentence_length_variance(sentences),
        lexical_diversity |->
          TrueDiv(Cardinality(Range(words_lower)), Max(nwords, 1)),
        ai_phrase_count |->
          Cardinality({i \in 1..Len(ai_phrases) : Contains(text_lower, ai_phrases[i])}),
        exclamation_count |-> count(text, <<33>>),
        question_count  |-> count(text, <<63>>),
        ellipsis_count  |-> count(text, <<46, 46, 46>>),
        comma_count     |-> count(text, <<44>>),
        uppercase_word_ratio |-> TrueDiv(uppercase_words, Max(nwords, 1)),
        contraction_count |->
          SumSeq([i \in 1..Len(contractions) |-> count(text, contractions[i])]),
        slang_count     |->
          Cardinality({i \in 1..nwords : words_lower[i] \in Range(slang_words)}),
        repeated_chars  |-> RepeatedFrom(text, 1),
        formal_transition_count |->
          Cardinality({i \in 1..Len(formal_transitions) :
                         Contains(text_lower, formal_transitions[i])}) ]

features_from(text, words) ==
  features_of(text, words, Len(words), sentences_of(text),
              [i \in 1..Len(words) |-> lower(words[i])], lower(text))

\* lines 30-99
analyze_text_features(text) == features_from(text, split(text))

(***************************************************************************)
(* Formatting.  f"{x:.Nf}" prints the exact binary value of x rounded to N *)
(* decimals, ties to even.                                                 *)
(***************************************************************************)
Digits == <<"0", "1", "2", "3", "4", "5", "6", "7", "8", "9">>

\* the decimal digits of a natural number given by its limbs
RECURSIVE BigDec(_)
RECURSIVE BigDecNext(_)
BigDec(a) == IF BigIsZero(a) THEN "" ELSE BigDecNext(BigDivInt(a, 10))

BigDecNext(qr) == BigDec(qr.q) \o Digits[qr.r + 1]

\* the last k decimal digits of n
RECURSIVE LastDigits(_, _)
LastDigits(n, k) ==
  IF k = 0 THEN "" ELSE LastDigits(n \div 10, k - 1) \o Digits[(n % 10) + 1]

\* f"{x:.kf}" for k decimals, 0 < k <= 4
\* the sign, the integer part qr.q and the k decimals qr.r
Fixed(neg, qr, k) ==
  (IF neg THEN "-" ELSE "")
    \o (IF BigIsZero(qr.q) THEN "0" ELSE BigDec(qr.q))
    \o "." \o LastDigits(qr.r, k)

\* scaled * 2^e rounded to a natural number
Shifted(scaled, e) ==
  IF e >= 0
  THEN BigMul(scaled, [i \in 1..(e \div 14 + 1) |-> IF i = e \div 14 + 1 THEN 2^(e % 14) ELSE 0])
  ELSE BigRoundShr(scaled, -e)

FormatFixed(x, k) ==
  Fixed(x.neg, BigDivInt(Shifted(BigMul(ToLimbs(x), <<10^k>>), x.e), 10^k), k)

\* f"{x:.2f}"
Format2f(x) == FormatFixed(x, 2)

\* f"{x*100:.1f}": the product is rounded to a float first, then printed
FormatPercent1f(x) == FormatFixed(FMul(x, FromInt(100)), 1)

(***************************************************************************)
(* calculate_ai_score.  The float literals of the source.                  *)
(***************************************************************************)
Lit_0_5 == Lit(5, 10)

Lit_0_15 == Lit(15, 100)

Lit_0_12 == Lit(12, 100)

Lit_0_10 == Lit(10, 100)

Lit_0_08 == Lit(8, 100)

Lit_0_05 == Lit(5, 100)

Lit_0_95 == Lit(95, 100)

Lit_0_75 == Lit(75, 100)

Lit_0_65 == Lit(65, 100)

Bump(st, delta, entry) ==
  [score |-> FAdd(st.score, delta), trace |-> Append(st.trace, entry)]

\* mutant: the boost subtracted
AiPhraseStepSubtracts(st, f) ==
  IF f.ai_phrase_count > 0
  THEN LET ai_phrase_boost == FMin(Lit(25, 100), FMul(FromInt(f.ai_phrase_count), Lit_0_15))
       IN  Bump(st, FNeg(ai_phrase_boost), "AI phrases: +" \o Format2f(ai_phrase_boost))
  ELSE st

\* Feature 1: AI phrases
AiPhraseStep(st, f) ==
  IF f.ai_phrase_count > 0
  THEN LET ai_phrase_boost == FMin(Lit(25, 100), FMul(FromInt(f.ai_phrase_count), Lit_0_15))
       IN  Bump(st, ai_phrase_boost, "AI phrases: +" \o Format2f(ai_phrase_boost))
  ELSE st

\* Feature 2: lexical diversity
LexicalDiversityStep(st, f) ==
  IF FLess(Lit(80, 100), f.lexical_diversity)
  THEN Bump(st, Lit_0_15, "High lexical diversity: +0.15")
  ELSE IF FLess(f.lexical_diversity, Lit(60, 100))
  THEN Bump(st, FNeg(Lit_0_12), "Low lexical diversity: -0.12")
  ELSE st

\* mutant: the bonus without the sentence_count test
UniformityStepAnyCount(st, f) ==
  IF FLess(f.sentence_length_variance, FromInt(10))
  THEN Bump(st, Lit_0_12, "Uniform sentences: +0.12")
  ELSE IF FLess(FromInt(30), f.sentence_length_variance)
  THEN Bump(st, FNeg(Lit_0_10), "Varied sentences: -0.10")
  ELSE st

\* Feature 3: sentence length uniformity
UniformityStep(st, f) ==
  IF FLess(f.sentence_length_variance, FromInt(10)) /\ f.sentence_count > 2
  THEN Bump(st, Lit_0_12, "Uniform sentences: +0.12")
  ELSE IF FLess(FromInt(30), f.sentence_length_variance)
  THEN Bump(st, FNeg(Lit_0_10), "Varied sentences: -0.10")
  ELSE st

\* Feature 4: average sentence length
SentenceLengthStep(st, f) ==
  IF FLess(FromInt(25), f.avg_sentence_length)
  THEN Bump(st, Lit_0_10, "Long sentences: +0.10")
  ELSE IF FLess(f.avg_sentence_length, FromInt(15))
  THEN Bump(st, FNeg(Lit_0_08), "Short sentences: -0.08")
  ELSE st

\* Feature 5: formal transitions
FormalTransitionStep(st, f) ==
  IF f.formal_transition_count > 2
  THEN Bump(st, Lit_0_12, "Formal transitions: +0.12")
  ELSE st

\* Feature 6: punctuation variety
PunctuationStep(st, f) ==
  IF f.exclamation_count > 0 \/ f.question_count > 1
  THEN Bump(st, FNeg(Lit_0_10), "Varied punctuation: -0.10")
  ELSE st

EllipsisStep(st, f) ==
  IF f.ellipsis_count > 0
  THEN Bump(st, FNeg(Lit_0_08), "Ellipsis usage: -0.08")
  ELSE st

\* Feature 7: contractions
ContractionStep(st, f) ==
  LET contraction_ratio == TrueDiv(f.contraction_count, Max(f.word_count, 1))
  IN  IF FLess(Lit(3, 100), contraction_ratio)
      THEN Bump(st, FNeg(Lit_0_12), "High contractions: -0.12")
      ELSE IF FEq(contraction_ratio, FromInt(0)) /\ f.word_count > 50
      THEN Bump(st, Lit_0_08, "No contractions: +0.08")
      ELSE st

\* Feature 8: slang
SlangStep(st, f) ==
  IF f.slang_count > 0
  THEN LET slang_boost == FMin(Lit(20, 100), FMul(FromInt(f.slang_count), Lit_0_10))
       IN  Bump(st, FNeg(slang_boost), "Slang words: -" \o Format2f(slang_boost))
  ELSE st

\* Feature 9: repeated characters
RepeatedCharsStep(st, f) ==
  IF f.repeated_chars > 0
  THEN Bump(st, FNeg(Lit_0_10), "Repeated chars: -0.10")
  ELSE st

\* Feature 10: uppercase emphasis
UppercaseStep(st, f) ==
  IF FLess(Lit_0_05, f.uppercase_word_ratio)
  THEN Bump(st, FNeg(Lit_0_08), "Uppercase emphasis: -0.08")
  ELSE st

\* 0.5 + (score - 0.5) * 0.6
Dampen(score) == FAdd(Lit_0_5, FMul(FSub(score, Lit_0_5), Lit(6, 10)))

\* mutant: the dampening up to 50 words
ShortTextStepWide(st, f) ==
  IF f.word_count < 50
  THEN [score |-> Dampen(st.score),
        trace |-> Append(st.trace, "Short text: reduced confidence")]
  ELSE st

\* Feature 11: very short text
ShortTextStep(st, f) ==
  IF f.word_count < 30
  THEN [score |-> Dampen(st.score),
        trace |-> Append(st.trace, "Short text: reduced confidence")]
  ELSE st

\* mutant: the bonus from 20 words on
PerfectStructureStepShort(st, f) ==
  IF /\ f.exclamation_count = 0
     /\ f.slang_count = 0
     /\ f.repeated_chars = 0
     /\ FLess(Lit_0_75, f.lexical_diversity)
     /\ f.word_count > 20
  THEN Bump(st, Lit_0_10, "Perfect structure: +0.10")
  ELSE st

\* Feature 12: perfect grammar and structure
PerfectStructureStep(st, f) ==
  IF /\ f.exclamation_count = 0
     /\ f.slang_count = 0
     /\ f.repeated_chars = 0
     /\ FLess(Lit_0_75, f.lexical_diversity)
     /\ f.word_count > 40
  THEN Bump(st, Lit_0_10, "Perfect structure: +0.10")
  ELSE st

\* the thirteen steps, numbered in the order the source runs them
Step(k, st, f) ==
  CASE k = 1  -> AiPhraseStep(st, f)
    [] k = 2  -> LexicalDiversityStep(st, f)
    [] k = 3  -> UniformityStep(st, f)
    [] k = 4  -> SentenceLengthStep(st, f)
    [] k = 5  -> FormalTransitionStep(st, f)
    [] k = 6  -> PunctuationStep(st, f)
    [] k = 7  -> EllipsisStep(st, f)
    [] k = 8  -> ContractionStep(st, f)
    [] k = 9  -> SlangStep(st, f)
    [] k = 10 -> RepeatedCharsStep(st, f)
    [] k = 11 -> UppercaseStep(st, f)
    [] k = 12 -> ShortTextStep(st, f)
    [] k = 13 -> PerfectStructureStep(st, f)

\* the n-th step of an order that starts from st: the scoring state it
\* goes from and the one it leads to
StepFrom(k, before, f) == [from |-> before, to |-> Step(k, before, f)]

RECURSIVE NthStep(_, _, _, _)
NthStep(order, n, st, f) ==
  StepFrom(order[n], IF n = 1 THEN st ELSE NthStep(order, n - 1, st, f).to, f)

RunSteps(order, st, f) ==
  IF order = <<>> THEN st ELSE NthStep(order, Len(order), st, f).to

StartScore == [score |-> Lit_0_5, trace |-> <<>>]

CodeOrder == <<1, 2, 3, 4, 5, 6, 7, 8, 9, 10, 11, 12, 13>>

\* mutant: no upper end
ClampNoUpper(score) == FMax(Lit_0_05, score)

\* max(0.05, min(0.95, score))
Clamp(score) == FMax(Lit_0_05, FMin(Lit_0_95, score))

\* the score that enters the clamp when the steps run in the given order
PreClamp(order, f) == RunSteps(order, StartScore, f).score

\* lines 199-202
Scores(score, confidence_factors) ==
  [ai_probability     |-> score,
   human_probability  |-> FSub(FromInt(1), score),
   confidence_factors |-> confidence_factors]

\* lines 196-202
Finish(st) == Scores(Clamp(st.score), st.trace)

\* lines 101-202; the parameter text of the source is unused
calculate_ai_score(features) == Finish(RunSteps(CodeOrder, StartScore, features))

(***************************************************************************)
(* get_explanation                                                         *)
(***************************************************************************)
When(cond, clause) == IF cond THEN <<clause>> ELSE <<>>

ai_clauses(f) ==
     When(f.ai_phrase_count > 0, "Contains typical AI assistant phrases")
  \o When(f.formal_transition_count > 2,
          "Uses formal transitions like 'furthermore' and 'moreover'")
  \o When(FLess(Lit_0_75, f.lexical_diversity),
          "High vocabulary diversity typical of AI")
  \o When(FLess(FromInt(25), f.avg_sentence_length),
          "Consistently long, complex sentences")
  \o When(FLess(f.sentence_length_variance, FromInt(10)) /\ f.sentence_count > 2,
          "Very uniform sentence structure")
  \o When(f.contraction_count = 0 /\ f.word_count > 50,
          "Formal tone with no contractions")

human_clauses(f) ==
     When(f.slang_count > 0, "Uses informal language and slang")
  \o When(f.repeated_chars > 0,
          "Contains emotional expressions with repeated characters")
  \o When(f.exclamation_count > 0 \/ f.question_count > 1,
          "Varied punctuation suggests human writing")
  \o When(f.contraction_count > 0, "Natural use of contractions")
  \o When(FLess(FromInt(30), f.sentence_length_variance),
          "Sentence lengths vary naturally")
  \o When(FLess(f.lexical_diversity, Lit_0_65),
          "Natural word repetition patterns")

\* mutant: the fallback appended whatever the clauses
OrElseAlways(clauses, fallback) == Append(clauses, fallback)

OrElse(clauses, fallback) == IF clauses = <<>> THEN <<fallback>> ELSE clauses

\* the list `explanations` at line 241
explanations(is_ai, f) ==
  IF is_ai
  THEN OrElse(ai_clauses(f), "Text structure and patterns suggest AI generation")
  ELSE OrElse(human_clauses(f), "Writing style and patterns suggest human authorship")

RECURSIVE Join(_, _)
Join(q, sep) ==
  IF Len(q) = 1 THEN q[1] ELSE q[1] \o sep \o Join(Tail(q), sep)

get_explanation(is_ai, confidence, features, factors) ==
  LET confidence_text == "Confidence: " \o FormatPercent1f(confidence) \o "%"
  IN  Join(explanations(is_ai, features), ". ") \o ". " \o confidence_text

(***************************************************************************)
(* detect_text: the POST /detect handler, one step per statement group.    *)
(***************************************************************************)
MinChars == 10

MinWords == 20

NReq == 2

Requests == 1..NReq

VARIABLES
  pc,        \* where each request is in the handler
  input,     \* input_data.text
  text,      \* the local text (stripped)
  features,  \* the local features
  result,    \* (ai_prob, human_prob, factors)
  response,  \* what the client gets: a DetectionResponse or an HTTP error
  calls      \* the core functions each request has called, in order

vars == <<pc, input, text, features, result, response, calls>>

Unset == <<>>

HTTPException(status_code, detail) == [status |-> status_code, detail |-> detail]

\* line 246
Receive(r, t) ==
  /\ pc[r] = "idle"
  /\ input' = [input EXCEPT ![r] = t]
  /\ text' = [text EXCEPT ![r] = strip(t)]
  /\ pc' = [pc EXCEPT ![r] = "validate"]
  /\ UNCHANGED <<features, result, response, calls>>

\* mutant: no word-count gate
RejectionNoWordGate(t) ==
  IF t = <<>> THEN HTTPException(400, "Text cannot be empty")
  ELSE IF Len(t) < MinChars
  THEN HTTPException(400, "Text too short for analysis (minimum 10 characters)")
  ELSE Unset

\* lines 248-260: the error a text is rejected with, or Unset
Rejection(t) ==
  IF t = <<>> THEN HTTPException(400, "Text cannot be empty")
  ELSE IF Len(t) < MinChars
  THEN HTTPException(400, "Text too short for analysis (minimum 10 characters)")
  ELSE IF Len(split(t)) < MinWords
  THEN HTTPException(400, "Text is too short for reliable detection. Please provide at least 20 words (50+ words recommended for best accuracy)")
  ELSE Unset

Validate(r) ==
  /\ pc[r] = "validate"
  /\ IF Rejection(text[r]) # Unset
     THEN /\ response' = [response EXCEPT ![r] = Rejection(text[r])]
          /\ pc' = [pc EXCEPT ![r] = "rejected"]
     ELSE /\ pc' = [pc EXCEPT ![r] = "analyze"]
          /\ UNCHANGED response
  /\ UNCHANGED <<input, text, features, result, calls>>

\* mutant: one features mapping shared by all requests
AnalyzeShared(r) ==
  /\ pc[r] = "analyze"
  /\ features' = [q \in Requests |-> analyze_text_features(text[r])]
  /\ calls' = [calls EXCEPT ![r] = Append(@, "analyze_text_features")]
  /\ pc' = [pc EXCEPT ![r] = "score"]
  /\ UNCHANGED <<input, text, result, response>>

\* line 263
Analyze(r) ==
  /\ pc[r] = "analyze"
  /\ features' = [features EXCEPT ![r] = analyze_text_features(text[r])]
  /\ calls' = [calls EXCEPT ![r] = Append(@, "analyze_text_features")]
  /\ pc' = [pc EXCEPT ![r] = "score"]
  /\ UNCHANGED <<input, text, result, response>>

\* line 266
Score(r) ==
  /\ pc[r] = "score"
  /\ result' = [result EXCEPT ![r] = calculate_ai_score(features[r])]
  /\ calls' = [calls EXCEPT ![r] = Append(@, "calculate_ai_score")]
  /\ pc' = [pc EXCEPT ![r] = "respond"]
  /\ UNCHANGED <<input, text, features, response>>

\* mutant: >= in place of >
IsAiGeneratedGe(ai_prob) == ~FLess(ai_prob, Lit_0_5)

\* line 268
IsAiGenerated(ai_prob) == FLess(Lit_0_5, ai_prob)

\* lines 268-280
DetectionResponse(feats, res) ==
  LET ai_prob         == res.ai_probability
      human_prob      == res.human_probability
      is_ai_generated == IsAiGenerated(ai_prob)
      confidence      == FMax(ai_prob, human_prob)
  IN  [status            |-> 200,
       is_ai_generated   |-> is_ai_generated,
       confidence        |-> confidence,
       human_probability |-> human_prob,
       ai_probability    |-> ai_prob,
       explanation       |->
         get_explanation(is_ai_generated, confidence, feats, res.confidence_factors),
       features          |-> feats]

Respond(r) ==
  /\ pc[r] = "respond"
  /\ response' = [response EXCEPT ![r] = DetectionResponse(features[r], result[r])]
  /\ calls' = [calls EXCEPT ![r] = Append(@, "get_explanation")]
  /\ pc' = [pc EXCEPT ![r] = "done"]
  /\ UNCHANGED <<input, text, features, result>>

\* the whole handler applied to one request body on its own
detect_text(t) ==
  LET stripped == strip(t)
  IN  IF Rejection(stripped) # Unset THEN Rejection(stripped)
      ELSE LET feats == analyze_text_features(stripped)
           IN  DetectionResponse(feats, calculate_ai_score(feats))

(***************************************************************************)
(* Request bodies: a run of words followed by up to MaxPieces pieces, the  *)
(* pieces taken in the order of their list.                                *)
(***************************************************************************)
MaxPieces == 2

PadWords ==
  [ \* one word twenty times
    same |->
      << <<97>>, <<97>>, <<97>>, <<97>>, <<97>>,
         <<97>>, <<97>>, <<97>>, <<97>>, <<97>>,
         <<97>>, <<97>>, <<97>>, <<97>>, <<97>>,
         <<97>>, <<97>>, <<97>>, <<97>>, <<97>> >>,
    \* twenty distinct words
    distinct |->
      << <<98>>, <<99>>, <<100>>, <<101>>, <<102>>,
         <<103>>, <<104>>, <<106>>, <<107>>, <<109>>,
         <<110>>, <<111>>, <<112>>, <<113>>, <<115>>,
         <<116>>, <<117>>, <<118>>, <<119>>, <<121>> >>,
    \* fourteen distinct words, six of them repeated
    mixed |->
      << <<98>>, <<99>>, <<100>>, <<101>>, <<102>>,
         <<103>>, <<104>>, <<106>>, <<107>>, <<109>>,
         <<110>>, <<111>>, <<112>>, <<113>>, <<98>>,
         <<99>>, <<100>>, <<101>>, <<102>>, <<103>> >>,
    \* twenty exclamation marks
    punct |->
      << <<33>>, <<33>>, <<33>>, <<33>>, <<33>>,
         <<33>>, <<33>>, <<33>>, <<33>>, <<33>>,
         <<33>>, <<33>>, <<33>>, <<33>>, <<33>>,
         <<33>>, <<33>>, <<33>>, <<33>>, <<33>> >>,
    \* two sentences of ten words
    halves |->
      << <<105, 116>>, <<105, 115>>, <<98, 121>>, <<102, 97, 114>>, <<116, 104, 101>>,
         <<98, 101, 115, 116>>, <<119, 97, 121>>, <<116, 111>>, <<103, 111>>, <<111, 110, 46>>,
         <<104, 101>>, <<100, 105, 100>>, <<110, 111, 116>>, <<115, 101, 101>>, <<116, 104, 97, 116>>,
         <<121, 111, 117>>, <<114, 97, 110>>, <<117, 112>>, <<116, 111>>, <<117, 115, 46>> >>,
    \* we met him at noon by car. she had one red hat on top. no dog was in my way.
    prose |->
      << <<119, 101>>, <<109, 101, 116>>, <<104, 105, 109>>, <<97, 116>>, <<110, 111, 111, 110>>,
         <<98, 121>>, <<99, 97, 114, 46>>, <<115, 104, 101>>, <<104, 97, 100>>, <<111, 110, 101>>,
         <<114, 101, 100>>, <<104, 97, 116>>, <<111, 110>>, <<116, 111, 112, 46>>, <<110, 111>>,
         <<100, 111, 103>>, <<119, 97, 115>>, <<105, 110>>, <<109, 121>>, <<119, 97, 121, 46>> >> ]

\* words a..b of a kind, each followed by a space
RECURSIVE PadRange(_, _, _)
PadRange(kind, a, b) ==
  IF a > b THEN <<>>
  ELSE IF a = b THEN PadWords[kind][a] \o <<32>>
  ELSE PadRange(kind, a, (a + b) \div 2) \o PadRange(kind, ((a + b) \div 2) + 1, b)

Pad(kind, n) == PadRange(kind, 1, n)

Pieces ==
  << \* 'lol '
     <<108, 111, 108, 32>>,
     \* 'however '
     <<104, 111, 119, 101, 118, 101, 114, 32>>,
     \* "don't "
     <<100, 111, 110, 39, 116, 32>>,
     \* U+00C0 (capital A with grave), 'B' and U+00A0 (no-break space)
     <<192, 66, 160>>,
     \* '. '
     <<46, 32>>,
     \* '!' and U+00A0 (no-break space)
     <<33, 160>>,
     \* '...'
     <<46, 46, 46>>,
     \* 'sooo '
     <<115, 111, 111, 111, 32>>,
     \* U+000B (line tabulation)
     <<11>>,
     \* 'x'
     <<120>> >>

\* at most n pieces, none earlier in the list than piece i
RECURSIVE TailsFrom(_, _)
TailsFrom(n, i) ==
  IF n = 0 THEN {<<>>}
  ELSE {<<>>} \cup UNION {{Pieces[j] \o t : t \in TailsFrom(n - 1, j)} : j \in i..Len(Pieces)}

Texts ==
  {p \o t : p \in {<<>>} \cup {Pad(k, n) : k \in DOMAIN PadWords,
                                               n \in {MinWords - 1, MinWords}},
            t \in TailsFrom(MaxPieces, 1)}

\* the bodies of the concurrent requests
ConcurrentTexts ==
  { <<>>,
    Pad("mixed", MinWords - 1) \o Pieces[7],
    Pad("prose", MinWords),
    Pad("prose", MinWords) \o Pieces[1],
    Pad("halves", MinWords) \o Pieces[4] }

(***************************************************************************)
(* Feature mappings for the scorer on its own: three profiles, each with   *)
(* up to MaxChanged features replaced by a value at or next to a threshold *)
(* of the scoring rules.                                                   *)
(***************************************************************************)
MaxChanged == 2

MaxCount == 2

MaxReordered == 1

Profiles ==
  { \* nothing fires
    [ word_count |-> 35, char_count |-> 170, avg_word_length |-> TrueDiv(136, 35),
      sentence_count |-> 2, avg_sentence_length |-> TrueDiv(35, 2),
      sentence_length_variance |-> TrueDiv(1, 4), lexical_diversity |-> TrueDiv(25, 35),
      ai_phrase_count |-> 0, exclamation_count |-> 0, question_count |-> 0,
      ellipsis_count |-> 0, comma_count |-> 2, uppercase_word_ratio |-> TrueDiv(0, 35),
      contraction_count |-> 0, slang_count |-> 0, repeated_chars |-> 0,
      formal_transition_count |-> 0 ],
    \* long formal prose
    [ word_count |-> 90, char_count |-> 560, avg_word_length |-> TrueDiv(470, 90),
      sentence_count |-> 3, avg_sentence_length |-> TrueDiv(90, 3),
      sentence_length_variance |-> TrueDiv(6, 9), lexical_diversity |-> TrueDiv(80, 90),
      ai_phrase_count |-> 0, exclamation_count |-> 0, question_count |-> 0,
      ellipsis_count |-> 0, comma_count |-> 6, uppercase_word_ratio |-> TrueDiv(0, 90),
      contraction_count |-> 0, slang_count |-> 0, repeated_chars |-> 0,
      formal_transition_count |-> 3 ],
    \* short casual chat
    [ word_count |-> 24, char_count |-> 110, avg_word_length |-> TrueDiv(87, 24),
      sentence_count |-> 3, avg_sentence_length |-> TrueDiv(24, 3),
      sentence_length_variance |-> TrueDiv(342, 9), lexical_diversity |-> TrueDiv(12, 24),
      ai_phrase_count |-> 0, exclamation_count |-> 1, question_count |-> 0,
      ellipsis_count |-> 1, comma_count |-> 0, uppercase_word_ratio |-> TrueDiv(2, 24),
      contraction_count |-> 2, slang_count |-> 2, repeated_chars |-> 1,
      formal_transition_count |-> 0 ] }

Alternatives ==
  [ word_count               |-> {29, 30, 41, 51},
    sentence_count           |-> {2, 3},
    avg_sentence_length      |-> {TrueDiv(15, 1), TrueDiv(26, 1)},
    sentence_length_variance |-> {TrueDiv(10, 1), TrueDiv(31, 1)},
    lexical_diversity        |-> {TrueDiv(60, 100), TrueDiv(76, 100), TrueDiv(81, 100)},
    ai_phrase_count          |-> (0..MaxCount) \cup {40},
    exclamation_count        |-> {0, 1},
    question_count           |-> {2},
    ellipsis_count           |-> {0, 1},
    uppercase_word_ratio     |-> {TrueDiv(5, 100), TrueDiv(6, 100)},
    contraction_count        |-> {0, 1, 2},
    slang_count              |-> (0..MaxCount) \cup {40, 100},
    repeated_chars           |-> {0, 1},
    formal_transition_count  |-> {2, 3} ]

RECURSIVE Changed(_, _)
Changed(S, n) ==
  IF n = 0 THEN S
  ELSE LET T == Changed(S, n - 1)
       IN  T \cup UNION {{[f EXCEPT ![k] = v] : v \in Alternatives[k]} :
                           f \in T, k \in DOMAIN Alternatives}

FeatureInputs == Changed(Profiles, MaxChanged)

(***************************************************************************)
(* Specifications                                                          *)
(***************************************************************************)
Idle == [r \in Requests |-> Unset]

\* one request, from its arrival to its response
Init ==
  /\ pc = [r \in Requests |-> "idle"]
  /\ input = Idle
  /\ text = Idle
  /\ features = Idle
  /\ result = Idle
  /\ response = Idle
  /\ calls = Idle

Next ==
  \/ \E t \in Texts : Receive(1, t)
  \/ Validate(1)
  \/ Analyze(1)
  \/ Score(1)
  \/ Respond(1)

Spec == Init /\ [][Next]_vars

\* the scorer and the explainer on a feature mapping: the handler from
\* line 266 on
ScoreFrom(inputs) ==
  /\ pc = [r \in Requests |-> IF r = 1 THEN "score" ELSE "idle"]
  /\ input = Idle
  /\ text = Idle
  /\ \E f \in inputs : features = [r \in Requests |-> IF r = 1 THEN f ELSE Unset]
  /\ result = Idle
  /\ response = Idle
  /\ calls = [r \in Requests |-> IF r = 1 THEN <<"analyze_text_features">> ELSE Unset]

NextScore == Score(1) \/ Respond(1)

SpecScore == ScoreFrom(FeatureInputs) /\ [][NextScore]_vars

\* the same on the feature mappings over which the orders of the scoring
\* steps are enumerated
SpecOrder == ScoreFrom(Changed(Profiles, MaxReordered)) /\ [][NextScore]_vars

\* several requests in flight, their steps interleaved
NextConcurrent ==
  \E r \in Requests :
     \/ \E t \in ConcurrentTexts : Receive(r, t)
     \/ Validate(r)
     \/ Analyze(r)
     \/ Score(r)
     \/ Respond(r)

SpecConcurrent == Init /\ [][NextConcurrent]_vars
(***************************************************************************)
(* Properties                                                              *)
(***************************************************************************)
Analyzed(r) == pc[r] \in {"score", "respond", "done"}

Scored(r) == pc[r] \in {"respond", "done"}

\* |x| in units of 2^-58, for 2^-6 <= |x| < 2 (the clamped scores)
Units(x) == DShl(x, x.e + 58)

\* |x - y| in units of 2^-58, exactly
Distance(x, y) ==
  IF x.neg # y.neg THEN DAdd(Units(x), Units(y))
  ELSE IF DLess(Units(x), Units(y)) THEN DSub(Units(y), Units(x))
  ELSE DSub(Units(x), Units(y))

InTrace(r, entry) == \E i \in 1..Len(result[r].confidence_factors) :
                        result[r].confidence_factors[i] = entry

\* C1: whatever rules fired, ai_probability lies in [0.05, 0.95] and the
\* float sum ai_probability + human_probability is exactly 1.0.
C1_ProbabilityRange ==
  \A r \in Requests : Scored(r) =>
     /\ ~FLess(result[r].ai_probability, Lit_0_05)
     /\ ~FLess(Lit_0_95, result[r].ai_probability)
     /\ FAdd(result[r].ai_probability, result[r].human_probability) = FromInt(1)

\* a score strictly inside the range and below 0.5, where 1 - score is a
\* rounded difference, and one held at the upper end by the clamp
C1_Witness ==
  /\ Scored(1)
  /\ FLess(Lit_0_05, result[1].ai_probability)
  /\ FLess(result[1].ai_probability, Lit_0_5)
  /\ Len(result[1].confidence_factors) >= 3

\* C2: in every successful response the label is true exactly when
\* ai_probability > 0.5, confidence is the larger of the two probabilities,
\* and confidence lies in [0.5, 0.95].
C2_LabelAndConfidence ==
  \A r \in Requests : (pc[r] = "done") =>
     /\ response[r].is_ai_generated = FLess(Lit_0_5, response[r].ai_probability)
     /\ response[r].confidence =
          FMax(response[r].ai_probability, response[r].human_probability)
     /\ ~FLess(response[r].confidence, response[r].ai_probability)
     /\ ~FLess(response[r].confidence, response[r].human_probability)
     /\ ~FLess(response[r].confidence, Lit_0_5)
     /\ ~FLess(Lit_0_95, response[r].confidence)

\* a response whose score is exactly 0.5: labelled human
C2_Witness ==
  /\ pc[1] = "done"
  /\ response[1].ai_probability = Lit_0_5
  /\ ~response[1].is_ai_generated

\* the words of a text, counted at their first characters
WordCount(t) ==
  Cardinality({i \in 1..Len(t) : /\ t[i] \notin WhitespaceChars
                                 /\ (i = 1 \/ t[i - 1] \in WhitespaceChars)})

TooShort(t) == t = <<>> \/ Len(t) < MinChars \/ WordCount(t) < MinWords

\* t is s without the whitespace at its two ends
Trimmed(t, s) ==
  /\ t # <<>> => (t[1] \notin WhitespaceChars /\ t[Len(t)] \notin WhitespaceChars)
  /\ \E a \in 0..(Len(s) - Len(t)) :
        /\ \A i \in 1..Len(t) : s[a + i] = t[i]
        /\ \A i \in (1..a) \cup ((a + Len(t) + 1)..Len(s)) : s[i] \in WhitespaceChars

\* C3: a request is rejected with a client error exactly when its trimmed
\* text is empty, under 10 characters or under 20 words, and then neither
\* core function has run; a request that is not rejected finishes only
\* after extraction, scoring and explanation have all run, and between
\* extraction and the response it is always at the scoring step or the one
\* after it.
C3_RejectBeforeCore ==
  \A r \in Requests :
     /\ (pc[r] # "idle") => Trimmed(text[r], input[r])
     /\ (pc[r] = "rejected") =>
           /\ TooShort(text[r])
           /\ response[r].status = 400
           /\ calls[r] = <<>>
     /\ (pc[r] \in {"analyze", "score", "respond", "done"}) => ~TooShort(text[r])
     /\ (pc[r] = "analyze") => calls[r] = <<>>
     /\ (pc[r] = "score") => calls[r] = <<"analyze_text_features">>
     /\ (pc[r] = "respond") => calls[r] = <<"analyze_text_features", "calculate_ai_score">>
     /\ (pc[r] = "done") =>
           /\ calls[r] = <<"analyze_text_features", "calculate_ai_score", "get_explanation">>
           /\ response[r].status = 200

\* a text of at least 10 characters rejected for having under 20 words,
\* once the line tabulation at its end is trimmed
C3_Witness ==
  /\ pc[1] = "rejected"
  /\ Len(text[1]) >= MinChars
  /\ WordCount(text[1]) = MinWords - 1
  /\ input[1][Len(input[1])] = 11

WithPhrases(f, n) == calculate_ai_score([f EXCEPT !.ai_phrase_count = n]).ai_probability

\* C4 as stated: raising ai_phrase_count from 0 to 1, the other features
\* fixed, strictly increases ai_probability.
C4_Original ==
  \A r \in Requests : (pc[r] = "respond" /\ features[r].ai_phrase_count = 0) =>
     FLess(result[r].ai_probability, WithPhrases(features[r], 1))

\* C4 amended: raising ai_phrase_count from 0 to 1 never decreases
\* ai_probability, and strictly increases it unless the clamp holds both
\* results at the same end (the result for 0 is already 0.95 or the result
\* for 1 is still 0.05).
C4_IncreaseUnlessClamped ==
  \A r \in Requests : (pc[r] = "respond" /\ features[r].ai_phrase_count = 0) =>
     LET with0 == result[r].ai_probability
         with1 == WithPhrases(features[r], 1)
     IN  /\ ~FLess(with1, with0)
         /\ (with0 # Lit_0_95 /\ with1 # Lit_0_05) => FLess(with0, with1)
         /\ (with0 = Lit_0_95 \/ with1 = Lit_0_05) => with0 = with1

\* a short text, where the boost is dampened, and the increase is strict
C4_Witness ==
  /\ pc[1] = "respond"
  /\ features[1].ai_phrase_count = 0
  /\ features[1].word_count < 30
  /\ FLess(result[1].ai_probability, WithPhrases(features[1], 1))

Reverse(q) == [i \in 1..Len(q) |-> q[Len(q) + 1 - i]]

Rotate(q, k) == [i \in 1..Len(q) |-> q[((i + k - 1) % Len(q)) + 1]]

AdditiveSteps == <<1, 2, 3, 4, 5, 6, 7, 8, 9, 10, 11>>

\* steps 1-11 then 13, the dampening still after steps 1-11
AdditiveOrders ==
  { Reverse(AdditiveSteps) \o <<12, 13>>,
    Rotate(AdditiveSteps, 4) \o <<12, 13>>,
    <<13>> \o Rotate(Reverse(AdditiveSteps), 7) \o <<12>> }

PerfectBeforeDampen == AdditiveSteps \o <<13, 12>>

\* the dampening ahead of additive steps
DampenEarly ==
  { <<12>> \o AdditiveSteps \o <<13>>,
    <<1, 2, 3, 4, 5, 12, 6, 7, 8, 9, 10, 11, 13>> }

ScoreInOrder(order, f) == Clamp(PreClamp(order, f))

\* C5 as stated: any other order of the thirteen steps before the clamp
\* yields the same ai_probability.
C5_Original ==
  \A r \in Requests : (pc[r] = "respond") =>
     \A order \in AdditiveOrders \cup DampenEarly \cup {PerfectBeforeDampen} :
        ScoreInOrder(order, features[r]) = result[r].ai_probability

\* 2^-48 in units of 2^-58
RoundingSlack == [hi |-> 0, lo |-> 2^10]

\* the steps other than the dampening whose condition holds of f; the
\* conditions read the features only, so a step outside this set leaves the
\* score as it is wherever it runs
Firing(f) ==
  {k \in (1..11) \cup {13} : Step(k, StartScore, f).trace # <<>>}

\* what each firing step adds to the score: the score it leaves from 0.0
Deltas(f) ==
  [k \in Firing(f) |-> Step(k, [score |-> FZero(FALSE), trace |-> <<>>], f).score]

\* one more step run after each pair <<steps run so far, score>>
Grow(deltas, layer) ==
  UNION {{<<p[1] \cup {k}, FAdd(p[2], deltas[k])>> : k \in (DOMAIN deltas) \ p[1]} :
            p \in layer}

RECURSIVE GrowBy(_, _, _)
GrowBy(deltas, layer, n) ==
  IF n = 0 THEN layer ELSE GrowBy(deltas, Grow(deltas, layer), n - 1)

\* the scores that the steps of deltas leave, over all their orders
AnyOrderSums(deltas) ==
  {p[2] : p \in GrowBy(deltas, {<<{}, StartScore.score>>}, Cardinality(DOMAIN deltas))}

\* the final scores over all orders of steps 1-11 and 13, the dampening run
\* after them
AnyOrderScores(f) ==
  {Clamp(Step(12, [score |-> s, trace |-> <<>>], f).score) : s \in AnyOrderSums(Deltas(f))}

\* C5 amended: with the short-text dampening kept after steps 1-11, every
\* order of steps 1-11 and 13 yields the same ai_probability up to float
\* rounding (within 2^-48), and running step 13 before the dampening yields
\* exactly the same ai_probability.
C5_OrderUpToRounding ==
  \A r \in Requests : (pc[r] = "respond") =>
     /\ ScoreInOrder(PerfectBeforeDampen, features[r]) = result[r].ai_probability
     /\ \A k \in Firing(features[r]) :
           Step(k, StartScore, features[r]).score = FAdd(StartScore.score, Deltas(features[r])[k])
     /\ LET scores == AnyOrderScores(features[r])
        IN  /\ \A order \in AdditiveOrders : ScoreInOrder(order, features[r]) \in scores
            /\ \A v \in scores :
                  ~DLess(RoundingSlack, Distance(v, result[r].ai_probability))

\* a short text on which several additive steps and the dampening fired,
\* and on which the orders of the additive steps do not all give the same
\* float
C5_Witness ==
  /\ pc[1] = "respond"
  /\ features[1].word_count < 30
  /\ Cardinality(Firing(features[1])) >= 4
  /\ FLess(Lit_0_05, result[1].ai_probability)
  /\ Cardinality(AnyOrderScores(features[1])) >= 2

\* C6: when word_count < 30 the score entering the clamp is
\* 0.5 + (S - 0.5) * 0.6 for the score S left by steps 1-11 (no later step
\* alters it), and ai_probability is no farther from 0.5 than clamp(S).
C6_Dampening ==
  \A r \in Requests : (pc[r] = "respond" /\ features[r].word_count < 30) =>
     LET S == PreClamp(AdditiveSteps, features[r])
     IN  /\ PreClamp(CodeOrder, features[r]) = Dampen(S)
         /\ result[r].ai_probability = Clamp(Dampen(S))
         /\ ~DLess(Distance(Clamp(S), Lit_0_5),
                     Distance(result[r].ai_probability, Lit_0_5))

\* a short text whose undampened score leaves the clamp range
C6_Witness ==
  /\ pc[1] = "respond"
  /\ features[1].word_count < 30
  /\ FLess(PreClamp(AdditiveSteps, features[1]), Lit_0_05)
  /\ FLess(Lit_0_05, result[1].ai_probability)

AiClauses ==
  { "Contains typical AI assistant phrases",
    "Uses formal transitions like 'furthermore' and 'moreover'",
    "High vocabulary diversity typical of AI",
    "Consistently long, complex sentences",
    "Very uniform sentence structure",
    "Formal tone with no contractions" }

AiFallback == "Text structure and patterns suggest AI generation"

HumanClauses ==
  { "Uses informal language and slang",
    "Contains emotional expressions with repeated characters",
    "Varied punctuation suggests human writing",
    "Natural use of contractions",
    "Sentence lengths vary naturally",
    "Natural word repetition patterns" }

HumanFallback == "Writing style and patterns suggest human authorship"

AiConditionHolds(f) ==
  \/ f.ai_phrase_count > 0
  \/ f.formal_transition_count > 2
  \/ FLess(Lit_0_75, f.lexical_diversity)
  \/ FLess(FromInt(25), f.avg_sentence_length)
  \/ (FLess(f.sentence_length_variance, FromInt(10)) /\ f.sentence_count > 2)
  \/ (f.contraction_count = 0 /\ f.word_count > 50)

HumanConditionHolds(f) ==
  \/ f.slang_count > 0
  \/ f.repeated_chars > 0
  \/ f.exclamation_count > 0
  \/ f.question_count > 1
  \/ f.contraction_count > 0
  \/ FLess(FromInt(30), f.sentence_length_variance)
  \/ FLess(f.lexical_diversity, Lit_0_65)

\* C7: for either label, the explanation has at least one clause, all of
\* them from the branch the label selects, and the branch's generic
\* fallback is present exactly when no clause condition of the branch
\* holds (and is then the only clause).
C7_OneBranch ==
  \A r \in Requests : (pc[r] = "done") =>
     \A is_ai \in BOOLEAN :
        LET e   == explanations(is_ai, features[r])
            own == IF is_ai THEN AiClauses ELSE HumanClauses
            fb  == IF is_ai THEN AiFallback ELSE HumanFallback
            any == IF is_ai THEN AiConditionHolds(features[r])
                   ELSE HumanConditionHolds(features[r])
        IN  /\ Len(e) >= 1
            /\ Range(e) \subseteq own \cup {fb}
            /\ (fb \in Range(e)) = ~any
            /\ (fb \in Range(e)) => e = <<fb>>

\* a response labelled human for which no human clause condition holds,
\* while AI clause conditions do
C7_Witness ==
  /\ pc[1] = "done"
  /\ ~response[1].is_ai_generated
  /\ ~HumanConditionHolds(features[1])
  /\ AiConditionHolds(features[1])

Finished(r) == pc[r] \in {"done", "rejected"}

\* each request's features, score and response are those its own text gets
\* when handled alone
OwnTextAlone ==
  \A r \in Requests :
     /\ Analyzed(r) => features[r] = analyze_text_features(strip(input[r]))
     /\ Scored(r) => result[r] = calculate_ai_score(features[r])
     /\ Finished(r) => response[r] = detect_text(input[r])

\* requests with the same text agree on all they have computed so far
SameTextSameOutcome ==
  \A r, q \in Requests : (pc[r] # "idle" /\ pc[q] # "idle" /\ input[r] = input[q]) =>
     /\ text[r] = text[q]
     /\ (Analyzed(r) /\ Analyzed(q)) => features[r] = features[q]
     /\ (Scored(r) /\ Scored(q)) => result[r] = result[q]
     /\ (Finished(r) /\ Finished(q)) => response[r] = response[q]
     /\ ~(pc[r] = "rejected" /\ Analyzed(q))

\* a step leaves alone all that belongs to the requests it does not move
OthersUntouched ==
  \A r \in Requests : (pc'[r] = pc[r]) =>
     /\ input'[r] = input[r]
     /\ text'[r] = text[r]
     /\ features'[r] = features[r]
     /\ result'[r] = result[r]
     /\ response'[r] = response[r]
     /\ calls'[r] = calls[r]

\* C8: under any interleaving, each request's features, score and response
\* are those its own text gets when handled alone, requests with the same
\* text get the same features, probabilities, label and explanation, and no
\* step of one request changes anything that belongs to another.
C8_Isolation ==
  /\ [](OwnTextAlone /\ SameTextSameOutcome)
  /\ [][OthersUntouched]_vars

\* two accepted requests with different texts, one finished while the
\* other, whose text holds a no-break space, is between extraction and
\* scoring
C8_Witness ==
  /\ pc[1] = "done"
  /\ pc[2] = "score"
  /\ input[1] # input[2]
  /\ \E i \in 1..Len(input[2]) : input[2][i] = 160

NoSentence(t) ==
  /\ t # <<>>
  /\ \A i \in 1..Len(t) : t[i] \in SentenceTerminators \cup WhitespaceChars

\* C9 as stated: for a non-empty text with no sentence, sentence_count,
\* avg_sentence_length and sentence_length_variance are all 0.
C9_Original ==
  \A r \in Requests : (Analyzed(r) /\ NoSentence(text[r])) =>
     /\ features[r].sentence_count = 0
     /\ FEq(features[r].avg_sentence_length, FromInt(0))
     /\ FEq(features[r].sentence_length_variance, FromInt(0))

\* C9 amended: for a non-empty text with no sentence, sentence_count = 0,
\* sentence_length_variance = 0 and avg_sentence_length = word_count (the
\* word count over the guarded denominator 1), which is 0 only for a text
\* without words.
C9_NoSentenceDefaults ==
  \A r \in Requests : (Analyzed(r) /\ NoSentence(text[r])) =>
     /\ features[r].sentence_count = 0
     /\ FEq(features[r].sentence_length_variance, FromInt(0))
     /\ FEq(features[r].avg_sentence_length, FromInt(features[r].word_count))
     /\ features[r].word_count = WordCount(text[r])
     /\ features[r].word_count >= 1
     /\ FLess(FromInt(0), features[r].avg_sentence_length)

\* a text of 20 words or more made of punctuation, spaces and a no-break
\* space that passed validation
C9_Witness ==
  /\ Analyzed(1)
  /\ NoSentence(text[1])
  /\ features[1].word_count > MinWords
  /\ \E i \in 1..Len(text[1]) : text[1][i] = 160

Uniform == "Uniform sentences: +0.12"

Varied == "Varied sentences: -0.10"

\* C10: a text with exactly one sentence has variance 0 and fires neither
\* branch of the uniformity step; the two branches never both fire, and the
\* uniformity bonus never fires with two sentences or fewer.
C10_UniformityStep ==
  \A r \in Requests : Scored(r) =>
     /\ (features[r].sentence_count = 1) =>
           /\ FEq(features[r].sentence_length_variance, FromInt(0))
           /\ ~InTrace(r, Uniform)
           /\ ~InTrace(r, Varied)
     /\ ~(InTrace(r, Uniform) /\ InTrace(r, Varied))
     /\ InTrace(r, Uniform) => features[r].sentence_count > 2

\* a text of two sentences of nearly the same length that has been scored:
\* the variance is under 10 and only the sentence count holds the bonus back
C10_Witness ==
  /\ Scored(1)
  /\ features[1].sentence_count = 2
  /\ FLess(FromInt(0), features[1].sentence_length_variance)
  /\ FLess(features[1].sentence_length_variance, FromInt(10))
  /\ ~InTrace(1, Uniform)
=============================================================================
